---- MODULE Spec2Model ----
(***************************************************************************)
(* A model of giskardpy's kinematic tree (src/src/giskardpy/model/world.py *)
(* classes Link, WorldTree and SubWorldTree): the link and joint maps, the *)
(* group registry, the structural version and the caches that hang off it  *)
(* (compiled forward-kinematics evaluators, memoized results, the batch    *)
(* evaluator of compute_all_fks, the cached properties of the tree and of  *)
(* its groups), and of the resolution of collision requests into a table   *)
(* of minimal distances (class World), and of the limits that              *)
(* set_joint_limits merges into the free variables of the joints.          *)
(*                                                                         *)
(* Every method is an operator from a tree record w to a result record     *)
(* [w, exc]: w is the tree after the call, exc the exception the call      *)
(* ended with ("ok" when it returned).  A method that raises half way      *)
(* returns the tree as the statements before the raise left it.            *)
(***************************************************************************)
EXTENDS Integers, Sequences, FiniteSets, TLC

VARIABLES links, joints, groups, version, fks, memo, fast_all_fks,
          link_names, link_names_with_collisions, js, last,
          collision_goal, collision_matrix, requested, limits

vars == <<links, joints, groups, version, fks, memo, fast_all_fks,
          link_names, link_names_with_collisions, js, last,
          collision_goal, collision_matrix, requested, limits>>

(***************************************************************************)
(* Names.  A PrefixName compares by its long name, prefix/short_name.      *)
(***************************************************************************)
None == "None"

PrefixName(name, prefix) == IF prefix = None THEN name ELSE prefix \o "/" \o name

\* WorldTree.__init__: self.connection_prefix
connection_prefix == "connection"

\* hard_reset: the map frame the god map holds
root_link_name == "map"

\* the group name hard_reset registers the robot under
RobotName == "robot"

(***************************************************************************)
(* Frames.  The symbolic algebra (casadi_wrapper) is outside the tree; a   *)
(* frame is an element of the permutation group of three points, which is  *)
(* not commutative, so that the order of a product and an inversion show.  *)
(***************************************************************************)
eye == <<1, 2, 3>>

dot(a, b) == <<a[b[1]], a[b[2]], a[b[3]]>>

inverse_frame(a) ==
    << CHOOSE k \in 1..3 : a[k] = 1,
       CHOOSE k \in 1..3 : a[k] = 2,
       CHOOSE k \in 1..3 : a[k] = 3 >>

\* the values a joint position takes
JointValues == {0, 1}

\* the motion of a movable joint at position q
joint_motion(q) == IF q = 0 THEN eye ELSE <<2, 1, 3>>

\* a joint's parent_T_child: a constant frame, times the motion of its
\* free variable when it has one
Frame(offset, symbol) == [offset |-> offset, symbol |-> symbol]

EvalFrame(T, values) ==
    IF T.symbol = None THEN T.offset
    ELSE dot(T.offset, joint_motion(values[T.symbol]))

\* an expression is the product, left to right, of frames and inverted
\* frames; evaluating it is what the compiled evaluator's call2 does
RECURSIVE EvalExpr(_, _)
EvalExpr(expr, values) ==
    IF expr = <<>> THEN eye
    ELSE LET n == Len(expr)
             f == EvalFrame(expr[n].T, values)
         IN dot(EvalExpr(SubSeq(expr, 1, n - 1), values),
                IF expr[n].inv THEN inverse_frame(f) ELSE f)

(***************************************************************************)
(* The descriptions and bodies the environment hands in.                   *)
(***************************************************************************)
RobotUrdf ==
    [name      |-> RobotName,
     root      |-> "base",
     child_map |-> ("base" :> << <<"j1", "arm">> >>),
     joint_map |-> ("j1" :> [fixed |-> FALSE, origin |-> <<2, 3, 1>>]),
     link_map  |-> ("arm" :> [collisions |-> TRUE])]

ShelfUrdf ==
    [name      |-> "shelf",
     root      |-> "shelf",
     child_map |-> ("shelf" :> << <<"sj", "box">> >>),
     joint_map |-> ("sj" :> [fixed |-> TRUE, origin |-> <<3, 2, 1>>]),
     link_map  |-> ("box" :> [collisions |-> TRUE])]

\* the joints the controller drives (god map, identifier.controlled_joints)
controlled_joints == {"j1"}

\* the free variables whose values the god map holds
Symbols == {"j1"}

(***************************************************************************)
(* Records.                                                                *)
(***************************************************************************)
\* Link.__init__; collisions is what has_collisions() answers for the
\* link's collision geometries
Link(name, collisions) ==
    [name              |-> name,
     parent_joint_name |-> None,
     child_joint_names |-> <<>>,
     collisions        |-> collisions]

\* a joint: FixedJoint when fixed, a MovableJoint otherwise
Joint(name, parent_link_name, child_link_name, fixed, parent_T_child) ==
    [name             |-> name,
     parent_link_name |-> parent_link_name,
     child_link_name  |-> child_link_name,
     fixed            |-> fixed,
     parent_T_child   |-> parent_T_child]

\* SubWorldTree.__init__: a group and its cached properties, none computed.
\* A cache is the empty set, or the singleton of the cached value.
SubWorldTree(name, root) ==
    [name |-> name, root_link_name |-> root,
     links |-> {}, joints |-> {}, groups |-> {}, names |-> FALSE]

R(w, exc) == [w |-> w, exc |-> exc]

SeqToSet(s) == {s[i] : i \in 1..Len(s)}

Without(f, k) == [x \in DOMAIN f \ {k} |-> f[x]]

RECURSIVE RemoveFirst(_, _)
RemoveFirst(s, x) ==
    IF s = <<>> THEN <<>>
    ELSE IF Head(s) = x THEN Tail(s)
    ELSE <<Head(s)>> \o RemoveFirst(Tail(s), x)

RECURSIVE Reverse(_)
Reverse(s) == IF s = <<>> THEN <<>> ELSE Append(Reverse(Tail(s)), Head(s))

(***************************************************************************)
(* Chains and forward kinematics.                                          *)
(***************************************************************************)
Flags(joints_, links_, fixed, non_controlled) ==
    [joints |-> joints_, links |-> links_, fixed |-> fixed,
     non_controlled |-> non_controlled]

Failed(exc) == [exc |-> exc, chain |-> <<>>]

\* the while loop of compute_chain.  It walks parent pointers; on a tree
\* it takes fewer steps than there are links, and a walk that takes more
\* is on a cycle and never ends ("diverges").
RECURSIVE chain_loop(_, _, _, _, _, _)
chain_loop(w, root, link, chain, flags, fuel) ==
    IF link = root THEN [exc |-> "ok", chain |-> Reverse(chain)]
    ELSE IF fuel = 0 THEN Failed("diverges")
    ELSE LET pj == w.links[link].parent_joint_name IN
         IF pj \notin DOMAIN w.joints THEN Failed("ValueError")
         ELSE LET parent_joint == w.joints[pj]
                  parent == parent_joint.parent_link_name
                  c1 == IF /\ flags.joints
                           /\ (flags.fixed \/ ~parent_joint.fixed)
                           /\ (flags.non_controlled \/ pj \in controlled_joints)
                        THEN Append(chain, pj) ELSE chain
                  c2 == IF flags.links THEN Append(c1, parent) ELSE c1
              IN IF parent \notin DOMAIN w.links THEN Failed("KeyError")
                 ELSE chain_loop(w, root, parent, c2, flags, fuel - 1)

\* a compute_chain that forgets chain.reverse()
compute_chain_unreversed(w, root, tip, flags) ==
    LET back(c) == [exc |-> c.exc, chain |-> Reverse(c.chain)]
    IN IF tip \notin DOMAIN w.links THEN Failed("KeyError")
       ELSE back(chain_loop(w, root, tip, IF flags.links THEN <<tip>> ELSE <<>>,
                            flags, Cardinality(DOMAIN w.links)))

compute_chain(w, root, tip, flags) ==
    IF tip \notin DOMAIN w.links THEN Failed("KeyError")
    ELSE chain_loop(w, root, tip, IF flags.links THEN <<tip>> ELSE <<>>, flags,
                    Cardinality(DOMAIN w.links))

SplitFailed(exc) ==
    [exc |-> exc, root_chain |-> <<>>, connection |-> <<>>, tip_chain |-> <<>>]

compute_split_chain(w, root, tip, flags) ==
    LET result(connection, r2, t2) ==
            IF r2.exc # "ok" THEN SplitFailed(r2.exc)
            ELSE IF t2.exc # "ok" THEN SplitFailed(t2.exc)
            ELSE [exc        |-> "ok",
                  root_chain |-> Reverse(IF flags.links THEN Tail(r2.chain)
                                         ELSE r2.chain),
                  connection |-> IF flags.links THEN <<connection>> ELSE <<>>,
                  tip_chain  |-> IF flags.links THEN Tail(t2.chain) ELSE t2.chain]
        from(connection) ==
            result(connection, compute_chain(w, connection, root, flags),
                   compute_chain(w, connection, tip, flags))
        split(rc, tc) ==
            IF rc.exc # "ok" THEN SplitFailed(rc.exc)
            ELSE IF tc.exc # "ok" THEN SplitFailed(tc.exc)
            ELSE LET m == IF Len(rc.chain) < Len(tc.chain)
                          THEN Len(rc.chain) ELSE Len(tc.chain)
                     differ == {k \in 1..m : rc.chain[k] # tc.chain[k]}
                     \* i as the for loop (or its else branch) leaves it
                     i == IF differ = {} THEN m
                          ELSE (CHOOSE k \in differ : \A d \in differ : k <= d) - 1
                 \* tip_chain[i - 1], where index -1 is the last element
                 IN from(IF i = 0 THEN tc.chain[Len(tc.chain)] ELSE tc.chain[i])
    IN IF root = tip
       THEN [exc |-> "ok", root_chain |-> <<>>, connection |-> <<>>,
             tip_chain |-> <<>>]
       ELSE split(compute_chain(w, root_link_name, root, Flags(FALSE, TRUE, TRUE, TRUE)),
                  compute_chain(w, root_link_name, tip, Flags(FALSE, TRUE, TRUE, TRUE)))

\* a product that does not invert the frames of the root's side
compose_fk_not_inverted(w, root_link, tip_link) ==
    LET product(sc) ==
            IF sc.exc # "ok" THEN [exc |-> sc.exc, expr |-> <<>>]
            ELSE [exc  |-> "ok",
                  expr |-> [k \in 1..Len(sc.root_chain \o sc.tip_chain) |->
                               [inv |-> FALSE,
                                T   |-> w.joints[(sc.root_chain \o sc.tip_chain)[k]]
                                            .parent_T_child]]]
    IN product(compute_split_chain(w, root_link, tip_link,
                                   Flags(TRUE, FALSE, TRUE, TRUE)))

\* a product that takes the tip's side first
compose_fk_tip_first(w, root_link, tip_link) ==
    LET product(sc) ==
            IF sc.exc # "ok" THEN [exc |-> sc.exc, expr |-> <<>>]
            ELSE [exc  |-> "ok",
                  expr |-> [k \in 1..Len(sc.tip_chain) |->
                               [inv |-> FALSE,
                                T   |-> w.joints[sc.tip_chain[k]].parent_T_child]]
                           \o
                           [k \in 1..Len(sc.root_chain) |->
                               [inv |-> TRUE,
                                T   |-> w.joints[sc.root_chain[k]].parent_T_child]]]
    IN product(compute_split_chain(w, root_link, tip_link,
                                   Flags(TRUE, FALSE, TRUE, TRUE)))

\* the product compose_fk_expression builds: inverted frames up the root's
\* side, then frames down the tip's side
compose_fk_expression(w, root_link, tip_link) ==
    LET product(sc) ==
            IF sc.exc # "ok" THEN [exc |-> sc.exc, expr |-> <<>>]
            ELSE [exc  |-> "ok",
                  expr |-> [k \in 1..Len(sc.root_chain) |->
                               [inv |-> TRUE,
                                T   |-> w.joints[sc.root_chain[k]].parent_T_child]]
                           \o
                           [k \in 1..Len(sc.tip_chain) |->
                               [inv |-> FALSE,
                                T   |-> w.joints[sc.tip_chain[k]].parent_T_child]]]
    IN product(compute_split_chain(w, root_link, tip_link,
                                   Flags(TRUE, FALSE, TRUE, TRUE)))

\* Link.has_collisions of every link (the cached property's value)
links_with_collisions(w) == {l \in DOMAIN w.links : w.links[l].collisions}

(***************************************************************************)
(* Groups: the cached properties of a SubWorldTree.  A group is named by   *)
(* its place i in the registry, a dict in insertion order.                 *)
(***************************************************************************)
P(w, exc, val) == [w |-> w, exc |-> exc, val |-> val]

TheOne(cache) == CHOOSE v \in cache : TRUE

GroupNames(w) == {w.groups[i].name : i \in 1..Len(w.groups)}

GroupIndex(w, name) ==
    IF name \in GroupNames(w)
    THEN CHOOSE i \in 1..Len(w.groups) : w.groups[i].name = name
    ELSE 0

\* the two helpers of SubWorldTree.joints and SubWorldTree.links walk the
\* same child joints and differ in what they collect.  A walk deeper than
\* the tree has links is on a cycle and ends in a RecursionError.
RECURSIVE sub_tree(_, _, _)
sub_tree(w, link, fuel) ==
    LET cj == w.links[link].child_joint_names
        collect(sub) ==
            LET bad == {k \in 1..Len(cj) : sub[k].exc # "ok"}
            IN IF bad # {}
               THEN [exc |-> sub[CHOOSE k \in bad : \A b \in bad : k <= b].exc,
                     links |-> {}, joints |-> {}]
               ELSE [exc    |-> "ok",
                     links  |-> {link} \cup UNION {sub[k].links : k \in 1..Len(cj)},
                     joints |-> SeqToSet(cj)
                                \cup UNION {sub[k].joints : k \in 1..Len(cj)}]
    IN IF fuel = 0 THEN [exc |-> "RecursionError", links |-> {}, joints |-> {}]
       ELSE IF \E k \in 1..Len(cj) :
                  \/ cj[k] \notin DOMAIN w.joints
                  \/ w.joints[cj[k]].child_link_name \notin DOMAIN w.links
       THEN [exc |-> "KeyError", links |-> {}, joints |-> {}]
       ELSE collect([k \in 1..Len(cj) |->
                        sub_tree(w, w.joints[cj[k]].child_link_name, fuel - 1)])

\* a fresh traversal from a group's root link (SubWorldTree.root_link first)
traverse(w, root) ==
    IF root \notin DOMAIN w.links
    THEN [exc |-> "KeyError", links |-> {}, joints |-> {}]
    ELSE sub_tree(w, root, Cardinality(DOMAIN w.links))

\* SubWorldTree.links, a cached_property
group_links(w, i) ==
    LET cache(t) ==
            IF t.exc # "ok" THEN P(w, t.exc, {})
            ELSE P([w EXCEPT !.groups[i].links = {t.links}], "ok", t.links)
    IN IF w.groups[i].links # {} THEN P(w, "ok", TheOne(w.groups[i].links))
       ELSE cache(traverse(w, w.groups[i].root_link_name))

\* SubWorldTree.joints, a cached_property
group_joints(w, i) ==
    LET cache(t) ==
            IF t.exc # "ok" THEN P(w, t.exc, {})
            ELSE P([w EXCEPT !.groups[i].joints = {t.joints}], "ok", t.joints)
    IN IF w.groups[i].joints # {} THEN P(w, "ok", TheOne(w.groups[i].joints))
       ELSE cache(traverse(w, w.groups[i].root_link_name))

\* SubWorldTree.groups, a cached_property: the names, in registry order, of
\* the other groups rooted in this group's links
group_groups(w, i) ==
    LET inside(in_links) ==
            SelectSeq([k \in 1..Len(w.groups) |-> w.groups[k].name],
                      LAMBDA n : /\ w.groups[GroupIndex(w, n)].root_link_name
                                        \in in_links
                                 /\ n # w.groups[i].name)
        store(w1, names) == P([w1 EXCEPT !.groups[i].groups = {names}], "ok", names)
        cache(l) ==
            IF l.exc # "ok" THEN P(l.w, l.exc, <<>>)
            ELSE store(l.w, inside(l.val))
    IN IF w.groups[i].groups # {} THEN P(w, "ok", TheOne(w.groups[i].groups))
       ELSE cache(group_links(w, i))

\* the loops of minimal_group_names over the groups named in todo: each
\* group's group_names is read (and so cached), and its names are removed
\* from group_names, a KeyError when one is not there.  A name in a stale
\* cache that is no longer registered is a group whose root link is gone:
\* reading its links raises KeyError.
RECURSIVE minimal_loop(_, _, _)
minimal_loop(w, todo, group_names) ==
    LET remove(r, inner) ==
            IF r.exc # "ok" THEN P(r.w, r.exc, {})
            ELSE IF ~(inner \subseteq group_names) THEN P(r.w, "KeyError", {})
            ELSE minimal_loop(r.w, Tail(todo), group_names \ inner)
        read(r) == remove(r, SeqToSet(r.val))
    IN IF todo = <<>> THEN P(w, "ok", group_names)
       ELSE IF GroupIndex(w, Head(todo)) = 0 THEN P(w, "KeyError", {})
       ELSE read(group_groups(w, GroupIndex(w, Head(todo))))

\* WorldTree.minimal_group_names
minimal_group_names(w) ==
    minimal_loop(w, [k \in 1..Len(w.groups) |-> w.groups[k].name], GroupNames(w))

\* minimal_group_names as a group inherits it: self.groups is the cached
\* property
group_minimal_group_names(w, i) ==
    LET loop(r) ==
            IF r.exc # "ok" THEN P(r.w, r.exc, {})
            ELSE minimal_loop(r.w, r.val, SeqToSet(r.val))
    IN loop(group_groups(w, i))

(***************************************************************************)
(* Cache resets.  reset_cache reads every attribute dir() lists, in        *)
(* alphabetical order, to clear the memo of those that have one; reading a *)
(* property computes it, and any exception is swallowed.                   *)
(***************************************************************************)
Empty == <<>>

\* WorldTree.reset_cache on the tree: the memos are cleared; link_names and
\* link_names_with_collisions are read and so cached; minimal_group_names
\* is read, which reads the groups' group_names
reset_cache(w) ==
    LET w1 == [w EXCEPT !.memo = Empty,
                        !.link_names = IF @ = {} THEN {DOMAIN w.links} ELSE @,
                        !.link_names_with_collisions =
                            IF @ = {} THEN {links_with_collisions(w)} ELSE @]
    IN minimal_group_names(w1).w

\* init_fast_fks: a fresh, empty evaluator cache
init_fast_fks(w) == [w EXCEPT !.fks = Empty]

\* a group reset that leaves the group's cached properties in place
group_reset_cache_skipped(w, i) == R(w, "ok")

\* SubWorldTree.reset_cache of group i.  The inherited pass reads base_pose
\* (the tree's compute_fk_pose for the group's root link, which compiles
\* and caches the evaluator; its memoized results are cleared further down
\* the same pass), group_names, joints, link_names,
\* link_names_with_collisions, links and minimal_group_names; then the five
\* cached properties are deleted, an AttributeError for one that is not
\* cached.
group_reset_cache(w, i) ==
    LET key == <<root_link_name, w.groups[i].root_link_name>>
        delete(w5) ==
            IF w5.groups[i].joints = {} THEN R(w5, "AttributeError")
            ELSE IF w5.groups[i].links = {}
            THEN R([w5 EXCEPT !.groups[i].joints = {}], "AttributeError")
            ELSE IF ~w5.groups[i].names
            THEN R([w5 EXCEPT !.groups[i].joints = {}, !.groups[i].links = {}],
                   "AttributeError")
            ELSE IF w5.groups[i].groups = {}
            THEN R([w5 EXCEPT !.groups[i].joints = {}, !.groups[i].links = {},
                              !.groups[i].names = FALSE], "AttributeError")
            ELSE R([w5 EXCEPT !.groups[i].joints = {}, !.groups[i].links = {},
                              !.groups[i].names = FALSE, !.groups[i].groups = {}],
                   "ok")
        read_names(w3) ==
            IF w3.groups[i].links # {} THEN [w3 EXCEPT !.groups[i].names = TRUE]
            ELSE w3
        pass(w1) ==
            delete([group_minimal_group_names(
                        read_names(group_joints(group_groups(w1, i).w, i).w), i).w
                    EXCEPT !.memo = Empty])
        base_pose(bp) ==
            IF bp.exc = "diverges" THEN R(w, "diverges")
            ELSE pass(IF bp.exc = "ok" /\ key \notin DOMAIN w.fks
                      THEN [w EXCEPT !.fks = @ @@ (key :> bp.expr)] ELSE w)
    IN base_pose(compose_fk_expression(w, key[1], key[2]))

\* the loop of soft_reset over the groups, from group i on
RECURSIVE groups_soft_reset(_, _)
groups_soft_reset(w, i) ==
    LET next(r) == IF r.exc # "ok" THEN r ELSE groups_soft_reset(r.w, i + 1)
    IN IF i > Len(w.groups) THEN R(w, "ok")
       ELSE next(group_reset_cache(w, i))

\* WorldTree.soft_reset
soft_reset(w) ==
    LET delete(r) ==
            IF r.exc # "ok" THEN r
            ELSE IF r.w.link_names = {} THEN R(r.w, "AttributeError")
            ELSE IF r.w.link_names_with_collisions = {}
            THEN R([r.w EXCEPT !.link_names = {}], "AttributeError")
            ELSE R([r.w EXCEPT !.link_names = {},
                               !.link_names_with_collisions = {}], "ok")
    IN delete(groups_soft_reset(init_fast_fks(reset_cache(w)), 1))

\* a version bump that forgets the increment
increase_version_no_increment(w) == soft_reset(w)

\* a version bump that keeps the evaluator and result caches
increase_version_keeps_caches(w) == R([w EXCEPT !.version = @ + 1], "ok")

\* WorldTree._increase_version
_increase_version(w) ==
    LET increment(r) ==
            IF r.exc # "ok" THEN r ELSE R([r.w EXCEPT !.version = @ + 1], "ok")
    IN increment(soft_reset(w))

(***************************************************************************)
(* Structural mutations.                                                   *)
(***************************************************************************)
\* WorldTree.link_joint_to_links
link_joint_to_links(w, joint, child_link) ==
    LET parent == joint.parent_link_name
        w1 == [w EXCEPT !.joints = @ @@ (joint.name :> joint)]
        w2 == [w1 EXCEPT !.links = @ @@ (child_link.name :>
                             [child_link EXCEPT !.parent_joint_name = joint.name])]
    IN IF parent \notin DOMAIN w.links THEN R(w, "KeyError")
       ELSE IF joint.name \in DOMAIN w.joints THEN R(w, "DuplicateNameException")
       ELSE IF child_link.name \in DOMAIN w1.links
       THEN R(w1, "DuplicateNameException")
       ELSE IF joint.name \in SeqToSet(w2.links[parent].child_joint_names)
       THEN R(w2, "AssertionError")
       ELSE R([w2 EXCEPT !.links[parent].child_joint_names = Append(@, joint.name)],
              "ok")

\* WorldTree.register_group
register_group(w, name, root) ==
    IF root \notin DOMAIN w.links THEN R(w, "KeyError")
    ELSE IF name \in GroupNames(w) THEN R(w, "DuplicateNameException")
    ELSE _increase_version([w EXCEPT !.groups = Append(@, SubWorldTree(name, root))])

\* sync_with_paramserver: the limits and weights it sets are not part of
\* the structure; it ends with a version bump
sync_with_paramserver(w) == _increase_version(w)

\* Joint.from_urdf: a fixed joint has a constant frame, a movable joint the
\* frame of its origin times the motion of its free variable
joint_from_urdf(urdf, joint_short, prefix, parent_name, child_name) ==
    LET uj == urdf.joint_map[joint_short]
        name == PrefixName(joint_short, prefix)
    IN Joint(name, parent_name, child_name, uj.fixed,
             Frame(uj.origin, IF uj.fixed THEN None ELSE name))

\* the helper of add_urdf, at the k-th child of the link named short
RECURSIVE add_urdf_helper(_, _, _, _, _)
add_urdf_helper(w, urdf, prefix, short, k) ==
    LET siblings(r2) ==
            IF r2.exc # "ok" THEN r2
            ELSE add_urdf_helper(r2.w, urdf, prefix, short, k + 1)
        children(r1, child_link_name) ==
            IF r1.exc # "ok" THEN r1
            ELSE siblings(add_urdf_helper(r1.w, urdf, prefix, child_link_name, 1))
        link(child_joint_name, child_link_name, child_link) ==
            children(link_joint_to_links(
                         w,
                         joint_from_urdf(urdf, child_joint_name, prefix,
                                         PrefixName(short, prefix), child_link.name),
                         child_link),
                     child_link_name)
        child(child_joint_name, child_link_name) ==
            link(child_joint_name, child_link_name,
                 Link(PrefixName(child_link_name, prefix),
                      urdf.link_map[child_link_name].collisions))
    IN IF short \notin DOMAIN urdf.child_map THEN R(w, "ok")
       ELSE IF k > Len(urdf.child_map[short]) THEN R(w, "ok")
       ELSE child(urdf.child_map[short][k][1], urdf.child_map[short][k][2])

\* WorldTree.add_urdf
add_urdf(w, urdf, prefix, parent_link_name, group_name) ==
    LET sync(r3) == IF r3.exc # "ok" THEN r3 ELSE sync_with_paramserver(r3.w)
        group(r2, child_link) ==
            IF r2.exc # "ok" THEN r2
            ELSE IF group_name # None
            THEN sync(register_group(r2.w, group_name, child_link.name))
            ELSE sync(r2)
        helper(r1, child_link) ==
            IF r1.exc # "ok" THEN r1
            ELSE group(add_urdf_helper(r1.w, urdf, prefix, urdf.root, 1), child_link)
        connect(parent, child_link) ==
            IF parent \notin DOMAIN w.links THEN R(w, "KeyError")
            ELSE helper(link_joint_to_links(
                            w,
                            Joint(PrefixName(PrefixName(urdf.name, prefix),
                                             connection_prefix),
                                  parent, child_link.name, TRUE, Frame(eye, None)),
                            child_link),
                        child_link)
    IN IF group_name \in GroupNames(w) THEN R(w, "DuplicateNameException")
       ELSE connect(IF parent_link_name = None THEN root_link_name
                    ELSE parent_link_name,
                    Link(PrefixName(urdf.root, prefix), FALSE))

\* WorldTree.add_world_body
add_world_body(w, msg, pose, parent_link_name) ==
    LET bump(r) == IF r.exc # "ok" THEN r ELSE _increase_version(r.w)
        group(r1) ==
            IF r1.exc # "ok" THEN r1
            ELSE bump(register_group(r1.w, msg.name, PrefixName(msg.name, None)))
        body(parent) ==
            IF parent \notin DOMAIN w.links THEN R(w, "KeyError")
            ELSE IF msg.name \in DOMAIN w.links THEN R(w, "DuplicateNameException")
            ELSE IF msg.name \in DOMAIN w.joints THEN R(w, "DuplicateNameException")
            ELSE IF msg.type = "URDF_BODY"
            THEN bump(add_urdf(w, msg.urdf, None, parent, msg.name))
            ELSE group(link_joint_to_links(
                           w,
                           Joint(PrefixName(msg.name, connection_prefix), parent,
                                 PrefixName(msg.name, None), TRUE, Frame(pose, None)),
                           Link(PrefixName(msg.name, None), msg.collisions)))
    IN body(IF parent_link_name = None THEN root_link_name ELSE parent_link_name)

(***************************************************************************)
(* Forward-kinematics queries.                                             *)
(***************************************************************************)
\* the evaluator self._fks[root, tip]: the KeyDefaultDict compiles the
\* expression the first time a key is asked for and keeps it
fks_lookup(w, root, tip) ==
    LET compile(c) ==
            IF c.exc # "ok" THEN P(w, c.exc, <<>>)
            ELSE P([w EXCEPT !.fks = @ @@ (<<root, tip>> :> c.expr)], "ok", c.expr)
    IN IF <<root, tip>> \in DOMAIN w.fks THEN P(w, "ok", w.fks[<<root, tip>>])
       ELSE compile(compose_fk_expression(w, root, tip))

\* WorldTree.compute_fk_np, memoized on (root, tip), at the joint values the
\* god map holds
compute_fk_np(w, root, tip, values) ==
    LET remember(w1, v) == P([w1 EXCEPT !.memo = @ @@ (<<root, tip>> :> v)], "ok", v)
        call2(f) ==
            IF f.exc # "ok" THEN P(w, f.exc, eye)
            ELSE remember(f.w, EvalExpr(f.val, values))
    IN IF <<root, tip>> \in DOMAIN w.memo THEN P(w, "ok", w.memo[<<root, tip>>])
       ELSE call2(fks_lookup(w, root, tip))

\* the expressions compute_all_fks stacks: one per link, other than the
\* root, that has collisions (fk_idx is the domain)
RECURSIVE batch_expressions(_, _)
batch_expressions(w, todo) ==
    LET stack(link, c, rest) ==
            IF c.exc # "ok" THEN P(w, c.exc, Empty)
            ELSE IF rest.exc # "ok" THEN rest
            ELSE P(w, "ok", rest.val @@ (link :> c.expr))
        one(link) ==
            stack(link, compose_fk_expression(w, root_link_name, link),
                  batch_expressions(w, todo \ {link}))
    IN IF todo = {} THEN P(w, "ok", Empty)
       ELSE one(CHOOSE l \in todo : TRUE)

\* the batch evaluator compute_all_fks uses: compiled when there is none
fast_all_fks_compiled(w) ==
    IF w.fast_all_fks # {} THEN P(w, "ok", TheOne(w.fast_all_fks))
    ELSE batch_expressions(w, links_with_collisions(w) \ {root_link_name})

\* WorldTree.compute_all_fks
compute_all_fks(w, values) ==
    LET results(w2, fk_idx, wanted) ==
            IF ~(wanted \subseteq DOMAIN fk_idx) THEN P(w2, "KeyError", Empty)
            ELSE P(w2, "ok", [l \in wanted |-> EvalExpr(fk_idx[l], values)])
        loop(w2, fk_idx) == results(w2, fk_idx, TheOne(w2.link_names_with_collisions))
        evaluate(b) ==
            IF b.exc # "ok" THEN P(w, b.exc, Empty)
            ELSE loop([w EXCEPT !.fast_all_fks = {b.val},
                                !.link_names_with_collisions =
                                    IF @ = {} THEN {links_with_collisions(w)} ELSE @],
                      b.val)
    IN evaluate(fast_all_fks_compiled(w))

(***************************************************************************)
(* Moving and deleting branches.                                           *)
(***************************************************************************)
\* a move_branch that looks at the joint's kind only after re-parenting it
move_branch_checks_late(w, joint_name, new_parent_link_name, values) ==
    IF joint_name \notin DOMAIN w.joints THEN R(w, "KeyError")
    ELSE IF ~w.joints[joint_name].fixed
    THEN R([w EXCEPT !.joints[joint_name].parent_link_name = new_parent_link_name],
           "NotImplementedError")
    ELSE _increase_version(
             [w EXCEPT !.joints[joint_name].parent_link_name = new_parent_link_name])

\* WorldTree.move_branch
move_branch(w, joint_name, new_parent_link_name, values) ==
    LET append(w2) ==
            _increase_version(
                [w2 EXCEPT !.links[new_parent_link_name].child_joint_names =
                               Append(@, joint_name)])
        relink(w1, old_parent) ==
            IF joint_name \notin SeqToSet(w1.links[old_parent].child_joint_names)
            THEN R(w1, "ValueError")
            ELSE append([w1 EXCEPT !.links[old_parent].child_joint_names =
                                       RemoveFirst(@, joint_name)])
        move(f, old_parent) ==
            IF f.exc # "ok" THEN R(f.w, f.exc)
            ELSE IF old_parent \notin DOMAIN w.links THEN R(f.w, "KeyError")
            ELSE IF new_parent_link_name \notin DOMAIN w.links THEN R(f.w, "KeyError")
            ELSE relink([f.w EXCEPT !.joints[joint_name].parent_link_name =
                                        new_parent_link_name,
                                    !.joints[joint_name].parent_T_child =
                                        Frame(f.val, None)],
                        old_parent)
    IN IF joint_name \notin DOMAIN w.joints THEN R(w, "KeyError")
       ELSE IF ~w.joints[joint_name].fixed THEN R(w, "NotImplementedError")
       ELSE move(compute_fk_np(w, new_parent_link_name,
                               w.joints[joint_name].child_link_name, values),
                 w.joints[joint_name].parent_link_name)

\* a helper that pops the link and leaves its groups and its branch alone
delete_helper_keeps_branch(w, link_name) ==
    IF link_name \notin DOMAIN w.links THEN R(w, "KeyError")
    ELSE R([w EXCEPT !.links = Without(@, link_name)], "ok")

\* the helper of delete_branch_at_joint: the link is popped, the groups
\* rooted at it are deleted, and each child joint is popped with its branch
RECURSIVE delete_helper(_, _), delete_children(_, _)
\* a helper that deletes the branch and forgets the groups rooted at the link
delete_helper_keeps_groups(w, link_name) ==
    IF link_name \notin DOMAIN w.links THEN R(w, "KeyError")
    ELSE delete_children([w EXCEPT !.links = Without(@, link_name)],
                         w.links[link_name].child_joint_names)

delete_helper(w, link_name) ==
    IF link_name \notin DOMAIN w.links THEN R(w, "KeyError")
    ELSE delete_children(
             [w EXCEPT !.links = Without(@, link_name),
                       !.groups = SelectSeq(@, LAMBDA g : g.root_link_name # link_name)],
             w.links[link_name].child_joint_names)

delete_children(w, child_joint_names) ==
    LET next(r) ==
            IF r.exc # "ok" THEN r ELSE delete_children(r.w, Tail(child_joint_names))
    IN IF child_joint_names = <<>> THEN R(w, "ok")
       ELSE IF Head(child_joint_names) \notin DOMAIN w.joints THEN R(w, "KeyError")
       ELSE next(delete_helper(
                     [w EXCEPT !.joints = Without(@, Head(child_joint_names))],
                     w.joints[Head(child_joint_names)].child_link_name))

\* WorldTree.delete_branch_at_joint
delete_branch_at_joint(w, joint_name) ==
    LET bump(r) == IF r.exc # "ok" THEN r ELSE _increase_version(r.w)
        pop(joint, w1) ==
            IF joint.parent_link_name \notin DOMAIN w.links THEN R(w1, "KeyError")
            ELSE IF joint_name \notin
                        SeqToSet(w.links[joint.parent_link_name].child_joint_names)
            THEN R(w1, "ValueError")
            ELSE bump(delete_helper(
                          [w1 EXCEPT !.links[joint.parent_link_name].child_joint_names =
                                         RemoveFirst(@, joint_name)],
                          joint.child_link_name))
    IN IF joint_name \notin DOMAIN w.joints THEN R(w, "KeyError")
       ELSE pop(w.joints[joint_name], [w EXCEPT !.joints = Without(@, joint_name)])

\* a delete_branch that deletes a link without a parent joint with its branch
delete_branch_of_any_link(w, link_name) ==
    LET bump(r) == IF r.exc # "ok" THEN r ELSE _increase_version(r.w)
    IN IF link_name \notin DOMAIN w.links THEN R(w, "KeyError")
       ELSE IF w.links[link_name].parent_joint_name = None
       THEN bump(delete_helper(w, link_name))
       ELSE delete_branch_at_joint(w, w.links[link_name].parent_joint_name)

\* WorldTree.delete_branch
delete_branch(w, link_name) ==
    IF link_name \notin DOMAIN w.links THEN R(w, "KeyError")
    ELSE delete_branch_at_joint(w, w.links[link_name].parent_joint_name)

\* WorldTree.delete_group
delete_group(w, group_name) ==
    IF group_name \notin GroupNames(w) THEN R(w, "KeyError")
    ELSE delete_branch(w, w.groups[GroupIndex(w, group_name)].root_link_name)

\* WorldTree.move_group
move_group(w, group_name, new_parent_link_name, values) ==
    LET move(joint_name) ==
            IF joint_name \notin DOMAIN w.joints THEN R(w, "KeyError")
            ELSE IF w.joints[joint_name].parent_link_name = new_parent_link_name
            THEN R(w, "DuplicateNameException")
            ELSE move_branch(w, joint_name, new_parent_link_name, values)
        of(root) ==
            IF root \notin DOMAIN w.links THEN R(w, "KeyError")
            ELSE move(w.links[root].parent_joint_name)
    IN IF group_name \notin GroupNames(w) THEN R(w, "KeyError")
       ELSE of(w.groups[GroupIndex(w, group_name)].root_link_name)

\* WorldTree.hard_reset: the maps are emptied, the robot on the parameter
\* server is added (a KeyError is logged and passed over), the batch
\* evaluator is dropped and the caches are reset
hard_reset(w) ==
    LET reset(r) ==
            IF r.exc \notin {"ok", "KeyError"} THEN r
            ELSE soft_reset([r.w EXCEPT !.fast_all_fks = {}])
    IN reset(add_urdf([w EXCEPT !.links = (root_link_name :> Link(root_link_name, FALSE)),
                                !.joints = Empty, !.groups = <<>>],
                      RobotUrdf, None, None, RobotName))

\* WorldTree.__init__
world_tree_init ==
    hard_reset([links |-> Empty, joints |-> Empty, groups |-> <<>>, version |-> 0,
                fks |-> Empty, memo |-> Empty, fast_all_fks |-> {},
                link_names |-> {}, link_names_with_collisions |-> {}])

(***************************************************************************)
(* The same methods called on a group.  A SubWorldTree overrides           *)
(* register_group, link_joint_to_links, delete_branch and hard_reset and   *)
(* inherits the rest; its links, joints and groups are its cached          *)
(* properties, dicts of their own that hold the Link, Joint and group      *)
(* objects of the owning tree; it has no _version and no                   *)
(* connection_prefix, its __init__ not calling the tree's.                 *)
(***************************************************************************)
\* the objects group i's cached dicts hold are those of the owning tree
CacheBacked(w, i) ==
    /\ w.groups[i].links # {} => TheOne(w.groups[i].links) \subseteq DOMAIN w.links
    /\ w.groups[i].joints # {} => TheOne(w.groups[i].joints) \subseteq DOMAIN w.joints
    /\ w.groups[i].groups # {} =>
          SeqToSet(TheOne(w.groups[i].groups)) \subseteq GroupNames(w)

\* SubWorldTree.register_group
group_register_group(w, i, name, root) == R(w, "NotImplementedError")

\* SubWorldTree.link_joint_to_links
group_link_joint_to_links(w, i, joint) == R(w, "NotImplementedError")

\* SubWorldTree.delete_branch
group_delete_branch(w, i, parent_joint) == R(w, "NotImplementedError")

\* SubWorldTree.hard_reset
group_hard_reset(w, i) == R(w, "NotImplementedError")

\* _increase_version on a group: its soft_reset is its reset_cache, and
\* self._version += 1 finds no _version
group_increase_version(w, i) ==
    LET bump(r) == IF r.exc = "diverges" THEN r ELSE R(r.w, "AttributeError")
    IN bump(group_reset_cache(w, i))

\* compute_fk_np on a group: the memo is keyed by the object called on, the
\* evaluators are the tree's
group_compute_fk_np(w, i, root, tip, values) ==
    LET key == <<w.groups[i].name, root, tip>>
        remember(w1, v) == P([w1 EXCEPT !.memo = @ @@ (key :> v)], "ok", v)
        call2(f) ==
            IF f.exc # "ok" THEN P(w, f.exc, eye)
            ELSE remember(f.w, EvalExpr(f.val, values))
    IN IF key \in DOMAIN w.memo THEN P(w, "ok", w.memo[key])
       ELSE call2(fks_lookup(w, root, tip))

\* move_branch on a group: the joint and the links are looked up in the
\* group's dicts, and the objects found there are the tree's
group_move_branch(w, i, joint_name, new_parent_link_name, values) ==
    LET append(w3) ==
            group_increase_version(
                [w3 EXCEPT !.links[new_parent_link_name].child_joint_names =
                               Append(@, joint_name)],
                i)
        relink(w2, old_parent) ==
            IF joint_name \notin SeqToSet(w2.links[old_parent].child_joint_names)
            THEN R(w2, "ValueError")
            ELSE append([w2 EXCEPT !.links[old_parent].child_joint_names =
                                       RemoveFirst(@, joint_name)])
        assign(rl, fk, old_parent) ==
            IF rl.exc # "ok" THEN R(rl.w, rl.exc)
            ELSE IF old_parent \notin rl.val THEN R(rl.w, "KeyError")
            ELSE IF new_parent_link_name \notin rl.val THEN R(rl.w, "KeyError")
            ELSE relink([rl.w EXCEPT !.joints[joint_name].parent_link_name =
                                         new_parent_link_name,
                                     !.joints[joint_name].parent_T_child =
                                         Frame(fk, None)],
                        old_parent)
        move(f, old_parent) ==
            IF f.exc # "ok" THEN R(f.w, f.exc)
            ELSE assign(group_links(f.w, i), f.val, old_parent)
        find(rj) ==
            IF rj.exc # "ok" THEN R(rj.w, rj.exc)
            ELSE IF joint_name \notin rj.val THEN R(rj.w, "KeyError")
            ELSE IF ~w.joints[joint_name].fixed THEN R(rj.w, "NotImplementedError")
            ELSE move(group_compute_fk_np(rj.w, i, new_parent_link_name,
                                          w.joints[joint_name].child_link_name,
                                          values),
                      w.joints[joint_name].parent_link_name)
    IN find(group_joints(w, i))

\* move_group on a group
group_move_group(w, i, group_name, new_parent_link_name, values) ==
    LET move(rj, joint_name) ==
            IF rj.exc # "ok" THEN R(rj.w, rj.exc)
            ELSE IF joint_name \notin rj.val THEN R(rj.w, "KeyError")
            ELSE IF w.joints[joint_name].parent_link_name = new_parent_link_name
            THEN R(rj.w, "DuplicateNameException")
            ELSE group_move_branch(rj.w, i, joint_name, new_parent_link_name, values)
        of(rl, root) ==
            IF rl.exc # "ok" THEN R(rl.w, rl.exc)
            ELSE IF root \notin rl.val THEN R(rl.w, "KeyError")
            ELSE move(group_joints(rl.w, i), w.links[root].parent_joint_name)
        find(rg) ==
            IF rg.exc # "ok" THEN R(rg.w, rg.exc)
            ELSE IF group_name \notin SeqToSet(rg.val) THEN R(rg.w, "KeyError")
            ELSE of(group_links(rg.w, i),
                    w.groups[GroupIndex(w, group_name)].root_link_name)
    IN find(group_groups(w, i))

\* delete_group on a group: the group is looked up, and delete_branch is
\* the group's own
group_delete_group(w, i, group_name) ==
    LET find(rg) ==
            IF rg.exc # "ok" THEN R(rg.w, rg.exc)
            ELSE IF group_name \notin SeqToSet(rg.val) THEN R(rg.w, "KeyError")
            ELSE group_delete_branch(rg.w, i,
                                     w.groups[GroupIndex(w, group_name)].root_link_name)
    IN find(group_groups(w, i))

\* the helper of delete_branch_at_joint on a group: the pops and deletes
\* are on the group's dicts
RECURSIVE group_delete_helper(_, _, _), group_delete_children(_, _, _)
group_delete_helper(w, i, link_name) ==
    LET forget(rg) ==
            IF rg.exc # "ok" THEN R(rg.w, rg.exc)
            ELSE group_delete_children(
                     [rg.w EXCEPT !.groups[i].groups =
                         {SelectSeq(rg.val,
                                    LAMBDA n : w.groups[GroupIndex(w, n)].root_link_name
                                                   # link_name)}],
                     i, w.links[link_name].child_joint_names)
        pop(rl) ==
            IF rl.exc # "ok" THEN R(rl.w, rl.exc)
            ELSE IF link_name \notin rl.val THEN R(rl.w, "KeyError")
            ELSE forget(group_groups(
                            [rl.w EXCEPT !.groups[i].links = {rl.val \ {link_name}}], i))
    IN pop(group_links(w, i))

group_delete_children(w, i, child_joint_names) ==
    LET next(r) ==
            IF r.exc # "ok" THEN r
            ELSE group_delete_children(r.w, i, Tail(child_joint_names))
        pop(rj, child_joint_name) ==
            IF rj.exc # "ok" THEN R(rj.w, rj.exc)
            ELSE IF child_joint_name \notin rj.val THEN R(rj.w, "KeyError")
            ELSE next(group_delete_helper(
                          [rj.w EXCEPT !.groups[i].joints = {rj.val \ {child_joint_name}}],
                          i, w.joints[child_joint_name].child_link_name))
    IN IF child_joint_names = <<>> THEN R(w, "ok")
       ELSE pop(group_joints(w, i), Head(child_joint_names))

\* delete_branch_at_joint on a group: the joint is popped from the group's
\* dict, and removed from the child_joint_names of the tree's parent link
group_delete_branch_at_joint(w, i, joint_name) ==
    LET bump(r) == IF r.exc # "ok" THEN r ELSE group_increase_version(r.w, i)
        remove(rl, parent) ==
            IF rl.exc # "ok" THEN R(rl.w, rl.exc)
            ELSE IF parent \notin rl.val THEN R(rl.w, "KeyError")
            ELSE IF joint_name \notin SeqToSet(w.links[parent].child_joint_names)
            THEN R(rl.w, "ValueError")
            ELSE bump(group_delete_helper(
                          [rl.w EXCEPT !.links[parent].child_joint_names =
                                           RemoveFirst(@, joint_name)],
                          i, w.joints[joint_name].child_link_name))
        pop(rj) ==
            IF rj.exc # "ok" THEN R(rj.w, rj.exc)
            ELSE IF joint_name \notin rj.val THEN R(rj.w, "KeyError")
            ELSE remove(group_links(
                            [rj.w EXCEPT !.groups[i].joints = {rj.val \ {joint_name}}], i),
                        w.joints[joint_name].parent_link_name)
    IN pop(group_joints(w, i))

\* add_urdf on a group: the connecting joint's name asks for
\* self.connection_prefix
group_add_urdf(w, i, urdf, prefix, parent_link_name, group_name) ==
    LET connect(rl) ==
            IF rl.exc # "ok" THEN R(rl.w, rl.exc)
            ELSE IF parent_link_name \notin rl.val THEN R(rl.w, "KeyError")
            ELSE R(rl.w, "AttributeError")
        parent(rg) ==
            IF rg.exc # "ok" THEN R(rg.w, rg.exc)
            ELSE IF group_name \in SeqToSet(rg.val)
            THEN R(rg.w, "DuplicateNameException")
            ELSE IF parent_link_name = None
            THEN (IF w.groups[i].root_link_name \in DOMAIN w.links
                  THEN R(rg.w, "AttributeError") ELSE R(rg.w, "KeyError"))
            ELSE connect(group_links(rg.w, i))
    IN parent(group_groups(w, i))

\* add_world_body on a group
group_add_world_body(w, i, msg, pose, parent_link_name) ==
    LET body(rj, parent) ==
            IF rj.exc # "ok" THEN R(rj.w, rj.exc)
            ELSE IF msg.name \in rj.val THEN R(rj.w, "DuplicateNameException")
            ELSE IF msg.type = "URDF_BODY"
            THEN group_add_urdf(rj.w, i, msg.urdf, None, parent, msg.name)
            ELSE R(rj.w, "AttributeError")
        named(rl) ==
            IF rl.exc # "ok" THEN R(rl.w, rl.exc)
            ELSE IF parent_link_name # None /\ parent_link_name \notin rl.val
            THEN R(rl.w, "KeyError")
            ELSE IF msg.name \in rl.val THEN R(rl.w, "DuplicateNameException")
            ELSE body(group_joints(rl.w, i),
                      IF parent_link_name = None THEN w.groups[i].root_link_name
                      ELSE parent_link_name)
    IN IF parent_link_name = None /\ w.groups[i].root_link_name \notin DOMAIN w.links
       THEN R(w, "KeyError")
       ELSE named(group_links(w, i))

(***************************************************************************)
(* The world's collision requests (class World).  A request is a           *)
(* CollisionEntry message; messages compare by their fields.  The robot    *)
(* and the objects of the world are objects of classes outside             *)
(* world.py; what their methods answer is given here as data, except       *)
(* link_order, which the tree has as well.                                 *)
(***************************************************************************)
\* CollisionEntry.ALL
ALL == ""

CollisionEntry(type, robot_links, body_b, link_bs, min_dist) ==
    [type |-> type, robot_links |-> robot_links, body_b |-> body_b,
     link_bs |-> link_bs, min_dist |-> min_dist]

\* World._robot: base - j1 (movable, controlled) - arm - j2 (fixed) - hand
TheRobot ==
    link_joint_to_links(
        link_joint_to_links(
            [links |-> ("base" :> Link("base", TRUE)), joints |-> Empty],
            Joint("j1", "base", "arm", FALSE, Frame(eye, "j1")),
            Link("arm", TRUE)).w,
        Joint("j2", "arm", "hand", TRUE, Frame(eye, None)),
        Link("hand", TRUE)).w

\* robot.get_controlled_links(): the links with collisions below a
\* controlled joint
get_controlled_links == <<"arm", "hand">>

\* robot.get_self_collision_matrix(): the pairs of robot links to check
get_self_collision_matrix ==
    {<<"arm", "base">>, <<"base", "hand">>, <<"hand", "arm">>}

RECURSIVE SetToSeq(_)
SetToSeq(S) ==
    IF S = {} THEN <<>>
    ELSE LET x == CHOOSE y \in S : TRUE IN <<x>> \o SetToSeq(S \ {x})

\* robot.get_possible_collisions(link): the partners link has in the
\* self-collision matrix
get_possible_collisions(link) ==
    SetToSeq({p[2] : p \in {q \in get_self_collision_matrix : q[1] = link}}
             \cup {p[1] : p \in {q \in get_self_collision_matrix : q[2] = link}})

\* World._objects: get_object_names(), and per object get_link_names() and
\* get_link_names_with_collision()
get_object_names == <<"box1", "cup">>

TheObjects ==
    "box1" :> [link_names |-> {"lid", "case"},
               link_names_with_collision |-> <<"case", "lid">>]
    @@ "cup" :> [link_names |-> {"cup"},
                 link_names_with_collision |-> <<"cup">>]

\* the min_dist table the caller passes: a distance per robot link
MinDist == "base" :> 1 @@ "arm" :> 2 @@ "hand" :> 3

\* link_a < link_b on names
Earlier(link_a, link_b) ==
    LET order == <<"arm", "base", "hand">>
        at(n) == CHOOSE k \in 1..Len(order) : order[k] = n
    IN at(link_a) < at(link_b)

is_joint_controlled(joint_name) == joint_name \in controlled_joints

\* the predicates callers pass as stop_when, called on a joint name: the
\* methods that look the joint up raise KeyError for a name that is no joint
stop_when_call(w, stop_when, joint) ==
    IF stop_when = "is_joint_controlled"
    THEN [exc |-> "ok", val |-> is_joint_controlled(joint)]
    ELSE IF stop_when = "has_joint"
    THEN [exc |-> "ok", val |-> joint \in DOMAIN w.joints]
    ELSE IF joint \notin DOMAIN w.joints THEN [exc |-> "KeyError", val |-> FALSE]
    ELSE IF stop_when = "is_joint_fixed"
    THEN [exc |-> "ok", val |-> w.joints[joint].fixed]
    ELSE [exc |-> "ok", val |-> ~w.joints[joint].fixed]

\* the loop that calls itself on the joint name it was called with
RECURSIVE search_loop_stays(_, _, _, _)
search_loop_stays(w, joint, stop_when, fuel) ==
    IF stop_when_call(w, stop_when, joint).exc # "ok"
    THEN [exc |-> "KeyError", val |-> None]
    ELSE IF stop_when_call(w, stop_when, joint).val THEN [exc |-> "ok", val |-> joint]
    ELSE IF joint \notin DOMAIN w.joints
            \/ w.joints[joint].parent_link_name \notin DOMAIN w.links
    THEN [exc |-> "KeyError", val |-> None]
    ELSE IF fuel = 0 THEN [exc |-> "diverges", val |-> None]
    ELSE search_loop_stays(w, joint, stop_when, fuel - 1)

\* the while loop of search_for_parent_joint: each round is a call without
\* stop_when, which answers the parent joint of the joint's parent link; on
\* a tree there are fewer rounds than joints
RECURSIVE search_loop(_, _, _, _)
search_loop(w, joint, stop_when, fuel) ==
    IF stop_when_call(w, stop_when, joint).exc # "ok"
    THEN [exc |-> "KeyError", val |-> None]
    ELSE IF stop_when_call(w, stop_when, joint).val THEN [exc |-> "ok", val |-> joint]
    ELSE IF joint \notin DOMAIN w.joints
            \/ w.joints[joint].parent_link_name \notin DOMAIN w.links
    THEN [exc |-> "KeyError", val |-> None]
    ELSE IF fuel = 0 THEN [exc |-> "diverges", val |-> None]
    ELSE search_loop(w, w.links[w.joints[joint].parent_link_name].parent_joint_name,
                     stop_when, fuel - 1)

\* WorldTree.search_for_parent_joint; stop_when is the name of a predicate
\* or None
search_for_parent_joint(w, joint_name, stop_when) ==
    IF joint_name \notin DOMAIN w.joints
       \/ w.joints[joint_name].parent_link_name \notin DOMAIN w.links
    THEN [exc |-> "KeyError", val |-> None]
    ELSE IF stop_when = None
    THEN [exc |-> "ok",
          val |-> w.links[w.joints[joint_name].parent_link_name].parent_joint_name]
    ELSE search_loop(w, w.links[w.joints[joint_name].parent_link_name].parent_joint_name,
                     stop_when, Cardinality(DOMAIN w.joints))

get_controlled_parent_joint_of_link(w, link_name) ==
    IF link_name \notin DOMAIN w.links THEN [exc |-> "KeyError", val |-> None]
    ELSE IF is_joint_controlled(w.links[link_name].parent_joint_name)
    THEN [exc |-> "ok", val |-> w.links[link_name].parent_joint_name]
    ELSE search_for_parent_joint(w, w.links[link_name].parent_joint_name,
                                 "is_joint_controlled")

\* link_order with the two early answers exchanged: a link with no
\* controlled joint above it is always first
link_order_uncontrolled_first(w, link_a, link_b) ==
    IF get_controlled_parent_joint_of_link(w, link_a).exc = "KeyError" THEN TRUE
    ELSE IF get_controlled_parent_joint_of_link(w, link_b).exc = "KeyError" THEN FALSE
    ELSE Earlier(link_a, link_b)

\* WorldTree.link_order: a link with no controlled joint above it is never
\* first
link_order(w, link_a, link_b) ==
    IF get_controlled_parent_joint_of_link(w, link_a).exc = "KeyError" THEN FALSE
    ELSE IF get_controlled_parent_joint_of_link(w, link_b).exc = "KeyError" THEN TRUE
    ELSE Earlier(link_a, link_b)

all_robot_links(collision_entry) ==
    collision_entry.robot_links = <<ALL>>

all_link_bs(collision_entry) ==
    collision_entry.link_bs = <<ALL>> \/ collision_entry.link_bs = <<>>

all_body_bs(collision_entry) == collision_entry.body_b = ALL

is_avoid_collision(collision_entry) ==
    collision_entry.type \in {"AVOID_COLLISION", "AVOID_ALL_COLLISIONS"}

is_allow_collision(collision_entry) ==
    collision_entry.type \in {"ALLOW_COLLISION", "ALLOW_ALL_COLLISIONS"}

is_avoid_all_self_collision(collision_entry) ==
    /\ is_avoid_collision(collision_entry)
    /\ all_robot_links(collision_entry)
    /\ collision_entry.body_b = RobotName
    /\ all_link_bs(collision_entry)

is_avoid_all_collision(collision_entry) ==
    /\ is_avoid_collision(collision_entry)
    /\ all_robot_links(collision_entry)
    /\ all_body_bs(collision_entry)
    /\ all_link_bs(collision_entry)

is_allow_all_collision(collision_entry) ==
    /\ is_allow_collision(collision_entry)
    /\ all_robot_links(collision_entry)
    /\ all_body_bs(collision_entry)
    /\ all_link_bs(collision_entry)

\* list.insert(i, x), i counted from 0
Insert(s, i, x) == SubSeq(s, 1, i) \o <<x>> \o SubSeq(s, i + 1, Len(s))

\* for x in xs: s.insert(i, x)
RECURSIVE InsertEach(_, _, _)
InsertEach(s, i, xs) ==
    IF xs = <<>> THEN s ELSE InsertEach(Insert(s, i, Head(xs)), i, Tail(xs))

\* World.split_body_b: an entry for every body takes the place of an entry
\* with body_b ALL, the robot first
RECURSIVE split_body_b(_, _)
split_body_b(collision_goals, i) ==
    IF i >= Len(collision_goals) THEN collision_goals
    ELSE LET collision_entry == collision_goals[i + 1]
             bodies == <<RobotName>> \o get_object_names
             new_ces == [k \in 1..Len(bodies) |->
                            [collision_entry EXCEPT !.body_b = bodies[k]]]
         IN IF all_body_bs(collision_entry)
            THEN split_body_b(InsertEach(RemoveFirst(collision_goals, collision_entry),
                                         i, Reverse(new_ces)),
                              i + Len(new_ces))
            ELSE split_body_b(collision_goals, i + 1)

\* World.robot_related_stuff: an entry per controlled link takes the place
\* of an entry with robot_links ALL, an entry per link that of an entry
\* with several
RECURSIVE robot_related_stuff(_, _)
robot_related_stuff(collision_goals, i) ==
    IF i >= Len(collision_goals) THEN collision_goals
    ELSE LET collision_entry == collision_goals[i + 1]
             of(robot_links) ==
                 [k \in 1..Len(robot_links) |->
                     [collision_entry EXCEPT !.robot_links = <<robot_links[k]>>]]
             split(new_ces) ==
                 robot_related_stuff(
                     InsertEach(RemoveFirst(collision_goals, collision_entry), i, new_ces),
                     i + Len(new_ces))
         IN IF is_avoid_all_self_collision(collision_entry)
            THEN robot_related_stuff(collision_goals, i + 1)
            ELSE IF all_robot_links(collision_entry)
            THEN split(of(get_controlled_links))
            ELSE IF Len(collision_entry.robot_links) > 1
            THEN split(of(collision_entry.robot_links))
            ELSE robot_related_stuff(collision_goals, i + 1)

\* World.split_link_bs: an entry with link_bs ALL is split into the robot
\* link's possible partners when body_b is the robot, and into the object's
\* links with collision when an entry from there on names links of the same
\* robot link and body; otherwise it stays as it is
RECURSIVE split_link_bs(_, _)
split_link_bs(collision_goals, i) ==
    IF i >= Len(collision_goals) THEN collision_goals
    ELSE LET collision_entry == collision_goals[i + 1]
             of(link_bs) ==
                 [k \in 1..Len(link_bs) |->
                     [collision_entry EXCEPT !.link_bs = <<link_bs[k]>>]]
             split(new_ces) ==
                 split_link_bs(
                     InsertEach(RemoveFirst(collision_goals, collision_entry), i, new_ces),
                     i + Len(new_ces))
             named_later ==
                 \E k \in (i + 1)..Len(collision_goals) :
                     /\ collision_goals[k].robot_links = collision_entry.robot_links
                     /\ collision_goals[k].body_b = collision_entry.body_b
                     /\ ~all_link_bs(collision_goals[k])
         IN IF is_avoid_all_self_collision(collision_entry)
            THEN split_link_bs(collision_goals, i + 1)
            ELSE IF all_link_bs(collision_entry)
            THEN IF collision_entry.body_b = RobotName
                 THEN split(of(get_possible_collisions(collision_entry.robot_links[1])))
                 ELSE IF named_later
                 THEN split(of(TheObjects[collision_entry.body_b]
                                   .link_names_with_collision))
                 ELSE split_link_bs(collision_goals, i + 1)
            ELSE IF Len(collision_entry.link_bs) > 1
            THEN split(of(collision_entry.link_bs))
            ELSE split_link_bs(collision_goals, i + 1)

\* World.are_entries_known: the exception the first unknown name raises
are_entries_known(collision_goals) ==
    LET robot_links == DOMAIN TheRobot.links
        unknown(ce) ==
            \/ ~(ce.body_b = RobotName \/ ce.body_b \in SeqToSet(get_object_names)
                 \/ all_body_bs(ce))
            \/ ~all_robot_links(ce) /\ ~(SeqToSet(ce.robot_links) \subseteq robot_links)
            \/ /\ ce.body_b = RobotName
               /\ ~(SeqToSet(ce.link_bs) \ {ALL} \subseteq robot_links)
            \/ /\ ce.body_b # RobotName
               /\ ~all_body_bs(ce)
               /\ ~all_link_bs(ce)
               /\ ~(SeqToSet(ce.link_bs) \subseteq TheObjects[ce.body_b].link_names)
    IN IF \E k \in 1..Len(collision_goals) : unknown(collision_goals[k])
       THEN "UnknownBodyException" ELSE "ok"

\* verify_collision_entries with a slip: the requests before the last
\* catch-all are not cut off ("keeps earlier"), no baseline is put before a
\* list without catch-all ("no baseline"), the names are looked up only
\* after the cut ("known after cut"), ALL next to other names is let
\* through ("ALL with others"), the caller's list is cut at the catch-all
\* too ("cut in place")
verify_with_slip(collision_goals, slip) ==
    LET typed == [k \in 1..Len(collision_goals) |->
                     [collision_goals[k] EXCEPT !.type =
                         IF @ = "ALLOW_ALL_COLLISIONS" THEN "ALLOW_COLLISION"
                         ELSE IF @ = "AVOID_ALL_COLLISIONS" THEN "AVOID_COLLISION"
                         ELSE @]]
        malformed(ce) ==
            \/ /\ slip # "ALL with others"
               /\ \/ ALL \in SeqToSet(ce.robot_links) /\ Len(ce.robot_links) # 1
                  \/ ALL \in SeqToSet(ce.link_bs) /\ Len(ce.link_bs) # 1
            \/ ce.body_b = ALL /\ ~all_link_bs(ce)
        filled == [k \in 1..Len(typed) |->
                      [typed[k] EXCEPT
                          !.robot_links = IF @ = <<>> THEN <<ALL>> ELSE @,
                          !.link_bs = IF @ = <<>> THEN <<ALL>> ELSE @]]
        catch_alls == {k \in 1..Len(filled) :
                          is_avoid_all_collision(filled[k])
                          \/ is_allow_all_collision(filled[k])}
        last_catch_all == CHOOSE k \in catch_alls : \A j \in catch_alls : j <= k
        cut == IF catch_alls = {} \/ slip = "keeps earlier" THEN 1
               ELSE IF is_avoid_all_collision(filled[last_catch_all])
               THEN last_catch_all
               ELSE last_catch_all + 1
        baseline == CollisionEntry("AVOID_COLLISION", <<ALL>>, ALL, <<ALL>>, -1)
        expand(goals) ==
            split_link_bs(robot_related_stuff(split_body_b(goals, 0), 0), 0)
        sliced(goals) == [exc |-> "ok", goals |-> expand(goals),
                          left |-> IF slip = "cut in place" THEN goals ELSE filled]
        in_place(goals) == [exc |-> "ok", goals |-> goals, left |-> goals]
        looked_up == IF slip = "known after cut"
                     THEN SubSeq(typed, cut, Len(typed)) ELSE typed
    IN IF \E k \in 1..Len(typed) : malformed(typed[k])
       THEN [exc |-> "PhysicsWorldException", goals |-> <<>>, left |-> typed]
       ELSE IF are_entries_known(looked_up) # "ok"
       THEN [exc |-> are_entries_known(looked_up), goals |-> <<>>, left |-> typed]
       ELSE IF catch_alls = {}
       THEN in_place(expand(IF slip = "no baseline" THEN filled
                            ELSE <<baseline>> \o filled))
       ELSE sliced(SubSeq(filled, cut, Len(filled)))

verify_keeps_earlier(collision_goals) ==
    verify_with_slip(collision_goals, "keeps earlier")

verify_without_baseline(collision_goals) ==
    verify_with_slip(collision_goals, "no baseline")

verify_known_after_cut(collision_goals) ==
    verify_with_slip(collision_goals, "known after cut")

verify_lets_all_with_others(collision_goals) ==
    verify_with_slip(collision_goals, "ALL with others")

verify_cuts_in_place(collision_goals) ==
    verify_with_slip(collision_goals, "cut in place")

\* World.verify_collision_entries.  goals is the list it returns, left the
\* list of the caller as the call leaves it: the entries are changed in
\* place, and the list itself is the one worked on unless a slice took its
\* place
verify_collision_entries(collision_goals) ==
    LET typed == [k \in 1..Len(collision_goals) |->
                     [collision_goals[k] EXCEPT !.type =
                         IF @ = "ALLOW_ALL_COLLISIONS" THEN "ALLOW_COLLISION"
                         ELSE IF @ = "AVOID_ALL_COLLISIONS" THEN "AVOID_COLLISION"
                         ELSE @]]
        malformed(ce) ==
            \/ ALL \in SeqToSet(ce.robot_links) /\ Len(ce.robot_links) # 1
            \/ ALL \in SeqToSet(ce.link_bs) /\ Len(ce.link_bs) # 1
            \/ ce.body_b = ALL /\ ~all_link_bs(ce)
        filled == [k \in 1..Len(typed) |->
                      [typed[k] EXCEPT
                          !.robot_links = IF @ = <<>> THEN <<ALL>> ELSE @,
                          !.link_bs = IF @ = <<>> THEN <<ALL>> ELSE @]]
        catch_alls == {k \in 1..Len(filled) :
                          is_avoid_all_collision(filled[k])
                          \/ is_allow_all_collision(filled[k])}
        last_catch_all == CHOOSE k \in catch_alls : \A j \in catch_alls : j <= k
        baseline == CollisionEntry("AVOID_COLLISION", <<ALL>>, ALL, <<ALL>>, -1)
        expand(goals) ==
            split_link_bs(robot_related_stuff(split_body_b(goals, 0), 0), 0)
        sliced(goals) == [exc |-> "ok", goals |-> expand(goals), left |-> filled]
        in_place(goals) == [exc |-> "ok", goals |-> goals, left |-> goals]
    IN IF \E k \in 1..Len(typed) : malformed(typed[k])
       THEN [exc |-> "PhysicsWorldException", goals |-> <<>>, left |-> typed]
       ELSE IF are_entries_known(typed) # "ok"
       THEN [exc |-> are_entries_known(typed), goals |-> <<>>, left |-> typed]
       ELSE IF catch_alls = {}
       THEN in_place(expand(<<baseline>> \o filled))
       ELSE IF is_avoid_all_collision(filled[last_catch_all])
       THEN sliced(SubSeq(filled, last_catch_all, Len(filled)))
       ELSE sliced(SubSeq(filled, last_catch_all + 1, Len(filled)))

\* World.get_robot_collision_matrix
get_robot_collision_matrix(min_dist) ==
    LET key(p) == IF link_order(TheRobot, p[1], p[2])
                  THEN <<p[1], RobotName, p[2]>>
                  ELSE <<p[2], RobotName, p[1]>>
        pair(k) == CHOOSE p \in get_self_collision_matrix : key(p) = k
    IN [k \in {key(p) : p \in get_self_collision_matrix} |-> min_dist[pair(k)[1]]]

\* the loop with a slip: an AVOID that stores the distance of the request
\* ("request distance"), an ALLOW of all links that deletes the robot link's
\* keys of every body ("any body")
RECURSIVE reduce_with_slip(_, _, _, _)
reduce_with_slip(collision_goals, min_allowed_distance, min_dist, slip) ==
    IF collision_goals = <<>> THEN [exc |-> "ok", table |-> min_allowed_distance]
    ELSE LET collision_entry == Head(collision_goals)
             key == <<collision_entry.robot_links[1], collision_entry.body_b,
                      collision_entry.link_bs[1]>>
             r_key == <<collision_entry.link_bs[1], collision_entry.body_b,
                        collision_entry.robot_links[1]>>
             keys == DOMAIN min_allowed_distance
             kept(ks) == [k \in ks |-> min_allowed_distance[k]]
             next(table) == reduce_with_slip(Tail(collision_goals), table, min_dist, slip)
         IN IF is_avoid_all_self_collision(collision_entry)
            THEN next(get_robot_collision_matrix(min_dist) @@ min_allowed_distance)
            ELSE IF Len(collision_entry.robot_links) # 1
                    \/ Len(collision_entry.link_bs) # 1
            THEN [exc |-> "AssertionError", table |-> min_allowed_distance]
            ELSE IF is_allow_collision(collision_entry)
            THEN IF all_link_bs(collision_entry)
                 THEN next(kept({k \in keys :
                                   ~(/\ k[1] = key[1]
                                     /\ slip = "any body" \/ k[2] = key[2])}))
                 ELSE IF key \in keys THEN next(kept(keys \ {key}))
                 ELSE IF r_key \in keys THEN next(kept(keys \ {r_key}))
                 ELSE next(min_allowed_distance)
            ELSE IF is_avoid_collision(collision_entry)
            THEN next((key :> IF slip = "request distance"
                              THEN collision_entry.min_dist
                              ELSE min_dist[key[1]]) @@ min_allowed_distance)
            ELSE [exc |-> "Exception", table |-> min_allowed_distance]

reduce_request_distance(collision_goals, min_allowed_distance, min_dist) ==
    reduce_with_slip(collision_goals, min_allowed_distance, min_dist, "request distance")

reduce_allow_any_body(collision_goals, min_allowed_distance, min_dist) ==
    reduce_with_slip(collision_goals, min_allowed_distance, min_dist, "any body")

\* the loop of collision_goals_to_collision_matrix over the verified list
RECURSIVE reduce(_, _, _)
reduce(collision_goals, min_allowed_distance, min_dist) ==
    IF collision_goals = <<>> THEN [exc |-> "ok", table |-> min_allowed_distance]
    ELSE LET collision_entry == Head(collision_goals)
             key == <<collision_entry.robot_links[1], collision_entry.body_b,
                      collision_entry.link_bs[1]>>
             r_key == <<collision_entry.link_bs[1], collision_entry.body_b,
                        collision_entry.robot_links[1]>>
             keys == DOMAIN min_allowed_distance
             kept(ks) == [k \in ks |-> min_allowed_distance[k]]
             next(table) == reduce(Tail(collision_goals), table, min_dist)
         IN IF is_avoid_all_self_collision(collision_entry)
            THEN next(get_robot_collision_matrix(min_dist) @@ min_allowed_distance)
            ELSE IF Len(collision_entry.robot_links) # 1
                    \/ Len(collision_entry.link_bs) # 1
            THEN [exc |-> "AssertionError", table |-> min_allowed_distance]
            ELSE IF is_allow_collision(collision_entry)
            THEN IF all_link_bs(collision_entry)
                 THEN next(kept({k \in keys : ~(k[1] = key[1] /\ k[2] = key[2])}))
                 ELSE IF key \in keys THEN next(kept(keys \ {key}))
                 ELSE IF r_key \in keys THEN next(kept(keys \ {r_key}))
                 ELSE next(min_allowed_distance)
            ELSE IF is_avoid_collision(collision_entry)
            THEN next((key :> min_dist[key[1]]) @@ min_allowed_distance)
            ELSE [exc |-> "Exception", table |-> min_allowed_distance]

\* World.collision_goals_to_collision_matrix: the table it returns, and the
\* caller's list as the call leaves it
collision_goals_to_collision_matrix(collision_goals, min_dist) ==
    LET reduced(v) ==
            IF v.exc # "ok" THEN [exc |-> v.exc, table |-> Empty, left |-> v.left]
            ELSE [exc   |-> reduce(v.goals, Empty, min_dist).exc,
                  table |-> reduce(v.goals, Empty, min_dist).table,
                  left  |-> v.left]
    IN reduced(verify_collision_entries(collision_goals))

(***************************************************************************)
(* Collision geometries (classes LinkGeometry, MeshGeometry, BoxGeometry,  *)
(* CylinderGeometry, SphereGeometry) and Link.has_collisions.  Lengths are *)
(* whole numbers and pi is 3, which keeps the formulas of                  *)
(* giskardpy.model.utils in the integers.                                  *)
(***************************************************************************)
cube_volume(depth, width, height) == depth * width * height

cube_surface(depth, width, height) ==
    2 * (depth * width + depth * height + width * height)

sphere_volume(radius) == 4 * radius * radius * radius

cylinder_volume(radius, height) == 3 * radius * radius * height

cylinder_surface(radius, height) == 6 * radius * (height + radius)

\* the defaults of is_big and has_collisions, in the units of the model
DefaultVolumeThreshold == 2

DefaultSurfaceThreshold == 8

\* is_big of the geometry's class
is_big(geo, volume_threshold, surface_threshold) ==
    IF geo.class = "MeshGeometry" THEN TRUE
    ELSE IF geo.class = "BoxGeometry"
    THEN \/ cube_volume(geo.depth, geo.width, geo.height) > volume_threshold
         \/ cube_surface(geo.depth, geo.width, geo.height) > surface_threshold
    ELSE IF geo.class = "CylinderGeometry"
    THEN \/ cylinder_volume(geo.radius, geo.height) > volume_threshold
         \/ cylinder_surface(geo.radius, geo.height) > surface_threshold
    ELSE IF geo.class = "SphereGeometry"
    THEN sphere_volume(geo.radius) > volume_threshold
    ELSE FALSE

\* Link.has_collisions: the loop calls geo.is_big() without arguments
has_collisions(collisions, volume_threshold, surface_threshold) ==
    \E k \in 1..Len(collisions) :
        is_big(collisions[k], DefaultVolumeThreshold, DefaultSurfaceThreshold)

(***************************************************************************)
(* The limits of the joints' free variables.  A limit is missing, a number *)
(* or the fmin or fmax of two limits, an expression of casadi_wrapper; the *)
(* class of a joint is the Joint subclass it is an instance of.            *)
(***************************************************************************)
NoLimit == [fn |-> "None"]

Num(v) == [fn |-> "num", v |-> v]

\* casadi_wrapper.min and max
w_min(a, b) == [fn |-> "fmin", a |-> a, b |-> b]

w_max(a, b) == [fn |-> "fmax", a |-> a, b |-> b]

\* the derivative orders limits are kept for: velocity and acceleration
Orders == {1, 2}

\* a joint with the limits of its free variable, one per order
LimitedJoint(name, class, upper_limits, lower_limits) ==
    [name |-> name, class |-> class,
     upper_limits |-> upper_limits, lower_limits |-> lower_limits]

is_joint_fixed(w, joint_name) ==
    w.joints[joint_name].class \notin
        {"RevoluteJoint", "ContinuousJoint", "PrismaticJoint", "MimicJoint"}

is_joint_mimic(w, joint_name) == w.joints[joint_name].class = "MimicJoint"

is_joint_rotational(w, joint_name) ==
    w.joints[joint_name].class \in {"RevoluteJoint", "ContinuousJoint"}

\* WorldTree.set_joint_limits
set_joint_limits(w, linear_limits, angular_limits, order) ==
    LET merged(joint) ==
            LET new_limits == IF is_joint_rotational(w, joint.name)
                              THEN angular_limits ELSE linear_limits
                old_upper_limits == joint.upper_limits[order]
                old_lower_limits == joint.lower_limits[order]
            IN IF old_upper_limits.fn \in {"fmin", "fmax"} THEN joint
               ELSE [joint EXCEPT
                        !.upper_limits[order] =
                            IF old_upper_limits = NoLimit
                            THEN Num(new_limits[joint.name])
                            ELSE w_min(old_upper_limits, Num(new_limits[joint.name])),
                        !.lower_limits[order] =
                            IF old_lower_limits = NoLimit
                            THEN Num(new_limits[joint.name])
                            ELSE w_max(old_lower_limits, Num(-new_limits[joint.name]))]
    IN [w EXCEPT !.joints =
           [joint_name \in DOMAIN w.joints |->
               IF is_joint_fixed(w, joint_name) \/ is_joint_mimic(w, joint_name)
               THEN w.joints[joint_name]
               ELSE merged(w.joints[joint_name])]]

\* the joints of the robot as hard_reset leaves them: no limit merged yet
RobotLimits ==
    ("connection/robot" :> [name |-> "connection/robot", class |-> "FixedJoint"])
    @@ ("j1" :> LimitedJoint("j1", "RevoluteJoint", [o \in Orders |-> NoLimit],
                             [o \in Orders |-> NoLimit]))

(***************************************************************************)
(* The state machine: one action per call on the tree.  last records the   *)
(* call that made the step: its name and the exception it ended with.      *)
(***************************************************************************)
W == [links |-> links, joints |-> joints, groups |-> groups, version |-> version,
      fks |-> fks, memo |-> memo, fast_all_fks |-> fast_all_fks,
      link_names |-> link_names,
      link_names_with_collisions |-> link_names_with_collisions]

Install(w) ==
    /\ links' = w.links
    /\ joints' = w.joints
    /\ groups' = w.groups
    /\ version' = w.version
    /\ fks' = w.fks
    /\ memo' = w.memo
    /\ fast_all_fks' = w.fast_all_fks
    /\ link_names' = w.link_names
    /\ link_names_with_collisions' = w.link_names_with_collisions

\* a call that returns or raises; a call that never ends takes no step
Call(op, r) ==
    /\ r.exc # "diverges"
    /\ Install(r.w)
    /\ last' = [op |-> op, exc |-> r.exc]
    /\ js' = js
    /\ UNCHANGED <<collision_goal, collision_matrix, requested, limits>>

\* what the callers pass in
LinkArgs == DOMAIN links

JointArgs == DOMAIN joints

\* the links a branch is moved to, and those a group is registered at
MoveTargets == {"arm", "shelf"}

GroupRoots == {root_link_name, "arm"}

\* the joints a link hangs on
ParentJointArgs ==
    {links[l].parent_joint_name : l \in DOMAIN links \ {root_link_name}}

ParentArgs == {None, "ghost"}

Poses == {<<1, 3, 2>>}

Bodies ==
    {[name |-> "box", type |-> "PRIMITIVE_BODY", urdf |-> ShelfUrdf, collisions |-> TRUE],
     [name |-> "shelf", type |-> "URDF_BODY", urdf |-> ShelfUrdf, collisions |-> FALSE]}

NewJoints ==
    {Joint(n, root_link_name, c, TRUE, Frame(eye, None)) :
        n \in {"j1", "xj"}, c \in {"arm", "box"}}

FkRoots == {"arm"}

FkTips == {"box"}

Init ==
    /\ world_tree_init.exc = "ok"
    /\ links = world_tree_init.w.links
    /\ joints = world_tree_init.w.joints
    /\ groups = world_tree_init.w.groups
    /\ version = world_tree_init.w.version
    /\ fks = world_tree_init.w.fks
    /\ memo = world_tree_init.w.memo
    /\ fast_all_fks = world_tree_init.w.fast_all_fks
    /\ link_names = world_tree_init.w.link_names
    /\ link_names_with_collisions = world_tree_init.w.link_names_with_collisions
    /\ js = [s \in Symbols |-> 0]
    /\ last = [op |-> "__init__", exc |-> "ok"]
    /\ collision_goal = <<>>
    /\ collision_matrix = Empty
    /\ requested = <<>>
    /\ limits = RobotLimits

\* the calls that change the structure are explored while the version is
\* below max
LinkJointToLinks(max) ==
    /\ version < max
    /\ \E joint \in NewJoints :
          Call("link_joint_to_links",
               link_joint_to_links(W, joint, Link(joint.child_link_name, FALSE)))

AddUrdf(max) ==
    /\ version < max
    /\ \E parent \in ParentArgs, group_name \in {None, "shelf"} :
          Call("add_urdf", add_urdf(W, ShelfUrdf, None, parent, group_name))

AddWorldBody(max) ==
    /\ version < max
    /\ \E msg \in Bodies, pose \in Poses, parent \in ParentArgs :
          Call("add_world_body", add_world_body(W, msg, pose, parent))

RegisterGroup(max) ==
    /\ version < max
    /\ \E root \in GroupRoots : Call("register_group", register_group(W, "box", root))

MoveBranch(max) ==
    /\ version < max
    /\ \E joint_name \in ParentJointArgs, parent \in MoveTargets :
          Call("move_branch", move_branch(W, joint_name, parent, js))

MoveGroup(max) ==
    /\ version < max
    /\ \E name \in GroupNames(W), parent \in MoveTargets :
          Call("move_group", move_group(W, name, parent, js))

DeleteBranchAtJoint(max) ==
    /\ version < max
    /\ \E joint_name \in JointArgs :
          Call("delete_branch_at_joint", delete_branch_at_joint(W, joint_name))

DeleteBranch(max) ==
    /\ version < max
    /\ \E link_name \in LinkArgs : Call("delete_branch", delete_branch(W, link_name))

DeleteGroup(max) ==
    /\ version < max
    /\ \E name \in GroupNames(W) : Call("delete_group", delete_group(W, name))

HardReset(max) ==
    /\ version < max
    /\ Call("hard_reset", hard_reset(W))

\* compute_chain and compute_split_chain read the maps and change nothing
ComputeChain ==
    /\ \A root \in LinkArgs, tip \in LinkArgs :
          compute_chain(W, root, tip, Flags(TRUE, TRUE, TRUE, TRUE)).exc # "diverges"
    /\ UNCHANGED vars

ComputeSplitChain ==
    /\ \A root \in LinkArgs, tip \in LinkArgs :
          compute_split_chain(W, root, tip, Flags(FALSE, TRUE, TRUE, TRUE)).exc
              # "diverges"
    /\ UNCHANGED vars

ComputeFkNp ==
    \E root \in LinkArgs \cap FkRoots, tip \in FkTips :
        Call("compute_fk_np", compute_fk_np(W, root, tip, js))

\* with no link to stack, what the algebra's vstack does is not the tree's
ComputeAllFks ==
    /\ links_with_collisions(W) \ {root_link_name} # {}
    /\ Call("compute_all_fks", compute_all_fks(W, js))

ReadGroupLinks == \E i \in 1..Len(groups) : Call("links", group_links(W, i))

ReadGroupJoints == \E i \in 1..Len(groups) : Call("joints", group_joints(W, i))

\* the joint positions in the god map change; the tree is not told
SetJointState ==
    /\ \E s \in Symbols, q \in JointValues : js' = [js EXCEPT ![s] = q]
    /\ UNCHANGED <<links, joints, groups, version, fks, memo, fast_all_fks,
                   link_names, link_names_with_collisions, last,
                   collision_goal, collision_matrix, requested, limits>>

(***************************************************************************)
(* Every call, to a small depth.                                           *)
(***************************************************************************)
MaxVersion == 3

Next ==
    \/ LinkJointToLinks(MaxVersion)
    \/ AddUrdf(MaxVersion)
    \/ AddWorldBody(MaxVersion)
    \/ RegisterGroup(MaxVersion)
    \/ MoveBranch(MaxVersion)
    \/ MoveGroup(MaxVersion)
    \/ DeleteBranchAtJoint(MaxVersion)
    \/ DeleteBranch(MaxVersion)
    \/ DeleteGroup(MaxVersion)
    \/ HardReset(MaxVersion)
    \/ ComputeChain
    \/ ComputeSplitChain
    \/ ComputeFkNp
    \/ ComputeAllFks
    \/ ReadGroupLinks
    \/ ReadGroupJoints
    \/ SetJointState

Spec == Init /\ [][Next]_vars

(***************************************************************************)
(* The calls that change the structure, to a greater depth.                *)
(***************************************************************************)
MaxTreeVersion == 4

Mutation(max) ==
    \/ LinkJointToLinks(max)
    \/ AddUrdf(max)
    \/ AddWorldBody(max)
    \/ RegisterGroup(max)
    \/ MoveBranch(max)
    \/ MoveGroup(max)
    \/ DeleteBranchAtJoint(max)
    \/ DeleteBranch(max)
    \/ DeleteGroup(max)
    \/ HardReset(max)

NextTree == Mutation(MaxTreeVersion)

SpecTree == Init /\ [][NextTree]_vars

(***************************************************************************)
(* Bodies and descriptions are added and branches deleted.                 *)
(***************************************************************************)
MaxAddDeleteVersion == 5

NextAddDelete ==
    \/ AddUrdf(MaxAddDeleteVersion)
    \/ AddWorldBody(MaxAddDeleteVersion)
    \/ DeleteBranchAtJoint(MaxAddDeleteVersion)
    \/ DeleteBranch(MaxAddDeleteVersion)
    \/ DeleteGroup(MaxAddDeleteVersion)

SpecAddDelete == Init /\ [][NextAddDelete]_vars

(***************************************************************************)
(* The structure changes and the groups' members are read.                 *)
(***************************************************************************)
MaxGroupVersion == 4

NextGroups ==
    \/ AddUrdf(MaxGroupVersion)
    \/ AddWorldBody(MaxGroupVersion)
    \/ RegisterGroup(MaxGroupVersion)
    \/ MoveBranch(MaxGroupVersion)
    \/ DeleteBranchAtJoint(MaxGroupVersion)
    \/ ReadGroupLinks
    \/ ReadGroupJoints

SpecGroups == Init /\ [][NextGroups]_vars

(***************************************************************************)
(* The structure changes, the joints move and single transforms are asked. *)
(***************************************************************************)
MaxFkVersion == 4

NextFk ==
    \/ Mutation(MaxFkVersion)
    \/ ComputeFkNp
    \/ SetJointState

SpecFk == Init /\ [][NextFk]_vars

(***************************************************************************)
(* The tree is built, and the methods that change it are called on its     *)
(* groups.                                                                 *)
(***************************************************************************)
\* the names last gives the calls on a group
GroupCalls ==
    {"group.register_group", "group.link_joint_to_links", "group.add_urdf",
     "group.add_world_body", "group.move_branch", "group.move_group",
     "group.delete_branch", "group.delete_branch_at_joint", "group.delete_group",
     "group.hard_reset"}

\* the groups whose cached dicts hold objects of the tree; a call on a
\* group is explored after a call on the tree that returned
GroupArgs ==
    {i \in 1..Len(groups) :
        CacheBacked(W, i) /\ last.op \notin GroupCalls /\ last.exc = "ok"}

GroupRegisterGroup ==
    \E i \in GroupArgs, root \in GroupRoots :
        Call("group.register_group", group_register_group(W, i, "box", root))

GroupLinkJointToLinks ==
    \E i \in GroupArgs, joint \in NewJoints :
        Call("group.link_joint_to_links", group_link_joint_to_links(W, i, joint))

GroupAddUrdf ==
    \E i \in GroupArgs, parent \in ParentArgs, group_name \in {None, "shelf"} :
        Call("group.add_urdf", group_add_urdf(W, i, ShelfUrdf, None, parent, group_name))

GroupAddWorldBody ==
    \E i \in GroupArgs, msg \in Bodies, pose \in Poses, parent \in ParentArgs :
        Call("group.add_world_body", group_add_world_body(W, i, msg, pose, parent))

GroupMoveBranch ==
    \E i \in GroupArgs, joint_name \in JointArgs, parent \in MoveTargets :
        Call("group.move_branch", group_move_branch(W, i, joint_name, parent, js))

GroupMoveGroup ==
    \E i \in GroupArgs, name \in GroupNames(W), parent \in MoveTargets :
        Call("group.move_group", group_move_group(W, i, name, parent, js))

GroupDeleteBranchAtJoint ==
    \E i \in GroupArgs, joint_name \in JointArgs :
        Call("group.delete_branch_at_joint",
             group_delete_branch_at_joint(W, i, joint_name))

GroupDeleteBranch ==
    \E i \in GroupArgs, link_name \in LinkArgs :
        Call("group.delete_branch", group_delete_branch(W, i, link_name))

GroupDeleteGroup ==
    \E i \in GroupArgs, name \in GroupNames(W) :
        Call("group.delete_group", group_delete_group(W, i, name))

GroupHardReset ==
    \E i \in GroupArgs : Call("group.hard_reset", group_hard_reset(W, i))

MaxOnGroupVersion == 4

NextOnGroup ==
    \/ AddUrdf(MaxOnGroupVersion)
    \/ AddWorldBody(MaxOnGroupVersion)
    \/ RegisterGroup(MaxOnGroupVersion)
    \/ GroupRegisterGroup
    \/ GroupLinkJointToLinks
    \/ GroupAddUrdf
    \/ GroupAddWorldBody
    \/ GroupMoveBranch
    \/ GroupMoveGroup
    \/ GroupDeleteBranchAtJoint
    \/ GroupDeleteBranch
    \/ GroupDeleteGroup
    \/ GroupHardReset

SpecOnGroup == Init /\ [][NextOnGroup]_vars

(***************************************************************************)
(* The tree is built and re-arranged, and chains and transforms are asked  *)
(* for.                                                                    *)
(***************************************************************************)
AllFlags == Flags(TRUE, TRUE, TRUE, TRUE)

LinkFlags == Flags(FALSE, TRUE, TRUE, TRUE)

AskChain ==
    \E root \in LinkArgs, tip \in LinkArgs :
        Call("compute_chain", R(W, compute_chain(W, root, tip, AllFlags).exc))

AskSplitChain ==
    \E root \in LinkArgs, tip \in LinkArgs :
        Call("compute_split_chain",
             R(W, compute_split_chain(W, root, tip, LinkFlags).exc))

AskFkExpression ==
    \E root \in LinkArgs, tip \in LinkArgs :
        Call("compose_fk_expression", R(W, compose_fk_expression(W, root, tip).exc))

\* the predicates search_for_parent_joint is asked with
StopWhens == {"is_joint_controlled", "has_joint", "is_joint_fixed", "is_joint_movable"}

\* a search that never ends is recorded as such
AskParentJoint ==
    \E joint_name \in JointArgs, stop_when \in StopWhens :
        /\ last' = [op |-> "search_for_parent_joint",
                    exc |-> search_for_parent_joint(W, joint_name, stop_when).exc]
        /\ UNCHANGED <<links, joints, groups, version, fks, memo, fast_all_fks,
                       link_names, link_names_with_collisions, js,
                       collision_goal, collision_matrix, requested, limits>>

MaxChainVersion == 5

NextChains ==
    \/ AddUrdf(MaxChainVersion)
    \/ AddWorldBody(MaxChainVersion)
    \/ MoveBranch(MaxChainVersion)
    \/ DeleteBranchAtJoint(MaxChainVersion)
    \/ AskChain
    \/ AskSplitChain
    \/ AskFkExpression
    \/ AskParentJoint

SpecChains == Init /\ [][NextChains]_vars

(***************************************************************************)
(* The requests a caller hands to the world: it builds a list entry by     *)
(* entry and has it resolved.                                              *)
(***************************************************************************)
\* well-formed requests about known names
KnownRequests ==
    {CollisionEntry(type, robot_links, to[1], to[2], 0) :
        type \in {"AVOID_COLLISION", "ALLOW_COLLISION"},
        robot_links \in {<<ALL>>, <<"arm">>, <<"hand">>, <<"arm", "hand">>},
        to \in {<<ALL, <<ALL>> >>,
                <<RobotName, <<ALL>> >>, <<RobotName, <<"arm">> >>,
                <<RobotName, <<"base">> >>,
                <<"box1", <<ALL>> >>, <<"box1", <<"lid">> >>,
                <<"box1", <<"lid", "case">> >>}}

\* requests with empty sets, of the legacy types, of a type the world does
\* not handle, about unknown names, and with ALL where it may not stand
OtherRequests ==
    {CollisionEntry("AVOID_COLLISION", <<>>, "cup", <<>>, 0),
     CollisionEntry("AVOID_ALL_COLLISIONS", <<ALL>>, ALL, <<ALL>>, 0),
     CollisionEntry("ALLOW_ALL_COLLISIONS", <<>>, ALL, <<>>, 0),
     CollisionEntry("OTHER", <<"arm">>, "cup", <<"cup">>, 0),
     CollisionEntry("AVOID_COLLISION", <<"arm">>, "ghost", <<ALL>>, 0),
     CollisionEntry("AVOID_COLLISION", <<"ghost">>, "cup", <<ALL>>, 0),
     CollisionEntry("ALLOW_COLLISION", <<"arm">>, "cup", <<"lid">>, 0),
     CollisionEntry("AVOID_COLLISION", <<ALL, "arm">>, "cup", <<ALL>>, 0),
     CollisionEntry("AVOID_COLLISION", <<"arm">>, ALL, <<"cup">>, 0),
     CollisionEntry("AVOID_COLLISION", <<"arm">>, "cup", <<ALL, "cup">>, 0),
     CollisionEntry("AVOID_COLLISION", <<"arm">>, RobotName, <<"lid">>, 0),
     CollisionEntry("ALLOW_COLLISION", <<"base">>, "box1", <<ALL>>, 0),
     CollisionEntry("AVOID_ALL_COLLISIONS", <<"arm">>, "cup", <<"cup">>, 0),
     CollisionEntry("ALLOW_ALL_COLLISIONS", <<"hand">>, "box1", <<ALL>>, 0)}

Requests == KnownRequests \cup OtherRequests

MaxGoals == 2

Resolved == last.op = "collision_goals_to_collision_matrix"

\* the caller appends a request to the list it is building
AppendCollisionEntry ==
    /\ ~Resolved
    /\ Len(collision_goal) < MaxGoals
    /\ \E collision_entry \in Requests :
          collision_goal' = Append(collision_goal, collision_entry)
    /\ last' = [op |-> "append", exc |-> "ok"]
    /\ UNCHANGED <<links, joints, groups, version, fks, memo, fast_all_fks,
                   link_names, link_names_with_collisions, js,
                   collision_matrix, requested, limits>>

\* World.collision_goals_to_collision_matrix on the list built; requested
\* keeps the list as it was handed in
CollisionGoalsToCollisionMatrix ==
    /\ ~Resolved
    /\ requested' = collision_goal
    /\ collision_goal' =
           collision_goals_to_collision_matrix(collision_goal, MinDist).left
    /\ collision_matrix' =
           collision_goals_to_collision_matrix(collision_goal, MinDist).table
    /\ last' = [op  |-> "collision_goals_to_collision_matrix",
                exc |-> collision_goals_to_collision_matrix(collision_goal,
                                                            MinDist).exc]
    /\ UNCHANGED <<links, joints, groups, version, fks, memo, fast_all_fks,
                   link_names, link_names_with_collisions, js, limits>>

NextResolver == AppendCollisionEntry \/ CollisionGoalsToCollisionMatrix

SpecResolver == Init /\ [][NextResolver]_vars

(***************************************************************************)
(* The limits: set_joint_limits called on joints of every class, whose     *)
(* free variables start with or without limits of the first order.         *)
(***************************************************************************)
OldUppers == {NoLimit, Num(2)}

OldLowers == {NoLimit, Num(-2)}

LimitsOf(class, upper, lower) ==
    LimitedJoint(class, class, (1 :> upper) @@ (2 :> NoLimit),
                 (1 :> lower) @@ (2 :> NoLimit))

InitLimits ==
    /\ links = world_tree_init.w.links
    /\ joints = world_tree_init.w.joints
    /\ groups = world_tree_init.w.groups
    /\ version = world_tree_init.w.version
    /\ fks = world_tree_init.w.fks
    /\ memo = world_tree_init.w.memo
    /\ fast_all_fks = world_tree_init.w.fast_all_fks
    /\ link_names = world_tree_init.w.link_names
    /\ link_names_with_collisions = world_tree_init.w.link_names_with_collisions
    /\ js = [s \in Symbols |-> 0]
    /\ last = [op |-> "__init__", exc |-> "ok"]
    /\ collision_goal = <<>>
    /\ collision_matrix = Empty
    /\ requested = <<>>
    /\ \E ru \in OldUppers, rl \in OldLowers, pu \in OldUppers, pl \in OldLowers :
          limits = ("RevoluteJoint" :> LimitsOf("RevoluteJoint", ru, rl))
                   @@ ("PrismaticJoint" :> LimitsOf("PrismaticJoint", pu, pl))
                   @@ ("ContinuousJoint" :> LimitsOf("ContinuousJoint", NoLimit, rl))
                   @@ ("MimicJoint" :> LimitsOf("MimicJoint", Num(2), NoLimit))
                   @@ ("FixedJoint" :> [name |-> "FixedJoint", class |-> "FixedJoint"])

\* the candidate limits the callers pass, one for every joint
NewLimits == {1, 3}

MaxLimitCalls == 2

LimitCalls == IF last.op = "set_joint_limits" THEN last.n ELSE 0

\* set_joint_limits; last keeps the arguments and counts the calls
SetJointLimits ==
    /\ LimitCalls < MaxLimitCalls
    /\ \E linear \in NewLimits, angular \in NewLimits, order \in Orders :
          /\ limits' = set_joint_limits([joints |-> limits],
                                        [n \in DOMAIN limits |-> linear],
                                        [n \in DOMAIN limits |-> angular],
                                        order).joints
          /\ last' = [op |-> "set_joint_limits", exc |-> "ok",
                      linear_limits |-> linear, angular_limits |-> angular,
                      order |-> order, n |-> LimitCalls + 1]
    /\ UNCHANGED <<links, joints, groups, version, fks, memo, fast_all_fks,
                   link_names, link_names_with_collisions, js,
                   collision_goal, collision_matrix, requested>>

NextLimits == SetJointLimits

SpecLimits == InitLimits /\ [][NextLimits]_vars

(***************************************************************************)
(* The geometries: has_collisions asked of links with up to MaxCollisions  *)
(* collision geometries, with thresholds below, at and above the defaults. *)
(***************************************************************************)
Geometries ==
    {[class |-> "MeshGeometry"], [class |-> "LinkGeometry"]}
    \cup {[class |-> "BoxGeometry", depth |-> d[1], width |-> d[2], height |-> d[3]] :
             d \in {<<1, 1, 1>>, <<2, 2, 2>>, <<4, 4, 0>>}}
    \cup {[class |-> "CylinderGeometry", radius |-> d[1], height |-> d[2]] :
             d \in {<<1, 0>>, <<1, 2>>}}
    \cup {[class |-> "SphereGeometry", radius |-> r] : r \in {0, 1}}

MaxCollisions == 2

Collisions ==
    UNION {[1..n -> Geometries] : n \in 0..MaxCollisions}

VolumeThresholds == {0, DefaultVolumeThreshold, 10}

SurfaceThresholds == {0, DefaultSurfaceThreshold, 40}

\* Link.has_collisions; last keeps the link's geometries, the thresholds and
\* the answer
HasCollisions ==
    /\ \E collisions \in Collisions, volume_threshold \in VolumeThresholds,
          surface_threshold \in SurfaceThresholds :
          last' = [op |-> "has_collisions", exc |-> "ok",
                   collisions |-> collisions,
                   volume_threshold |-> volume_threshold,
                   surface_threshold |-> surface_threshold,
                   val |-> has_collisions(collisions, volume_threshold,
                                          surface_threshold)]
    /\ UNCHANGED <<links, joints, groups, version, fks, memo, fast_all_fks,
                   link_names, link_names_with_collisions, js,
                   collision_goal, collision_matrix, requested, limits>>

NextGeometry == HasCollisions

SpecGeometry == Init /\ [][NextGeometry]_vars

(***************************************************************************)
(* Groups are registered inside one another and the outermost are asked.   *)
(***************************************************************************)
NestedGroupNames == {"box", "grip"}

MaxNestingVersion == 5

RegisterNestedGroup ==
    /\ version < MaxNestingVersion
    /\ \E name \in NestedGroupNames, root \in LinkArgs :
          Call("register_group", register_group(W, name, root))

\* the property minimal_group_names is read; the groups cache their groups
AskMinimalGroupNames ==
    /\ Install(minimal_group_names(W).w)
    /\ last' = [op  |-> "minimal_group_names",
                exc |-> minimal_group_names(W).exc,
                val |-> minimal_group_names(W).val]
    /\ js' = js
    /\ UNCHANGED <<collision_goal, collision_matrix, requested, limits>>

NextNesting ==
    \/ RegisterNestedGroup
    \/ AddWorldBody(MaxNestingVersion)
    \/ DeleteGroup(MaxNestingVersion)
    \/ AskMinimalGroupNames

SpecNesting == Init /\ [][NextNesting]_vars

(***************************************************************************)
(* What the properties speak of.                                           *)
(***************************************************************************)
\* how often x occurs in the sequence s
Count(s, x) == Cardinality({k \in 1..Len(s) : s[k] = x})

\* the link and joint maps of w form a single tree rooted at the root link
SingleTree(w) ==
    /\ root_link_name \in DOMAIN w.links
    /\ \A j \in DOMAIN w.joints :
          /\ w.joints[j].parent_link_name \in DOMAIN w.links
          /\ w.joints[j].child_link_name \in DOMAIN w.links
    /\ \A l \in DOMAIN w.links \ {root_link_name} :
          /\ w.links[l].parent_joint_name \in DOMAIN w.joints
          /\ w.joints[w.links[l].parent_joint_name].child_link_name = l
    /\ \A j \in DOMAIN w.joints, l \in DOMAIN w.links :
          Count(w.links[l].child_joint_names, j)
              = IF w.joints[j].parent_link_name = l THEN 1 ELSE 0
    /\ traverse(w, root_link_name).exc = "ok"
    /\ traverse(w, root_link_name).links = DOMAIN w.links

\* the registered groups: their names and root links, in registry order
Registry(gs) == [k \in 1..Len(gs) |-> <<gs[k].name, gs[k].root_link_name>>]

\* the pose of a link in the root frame, at the joint positions values
RootPose(w, link, values) ==
    EvalExpr(compose_fk_expression(w, root_link_name, link).expr, values)

\* the tree as a step leaves it
WAfter ==
    [links |-> links', joints |-> joints', groups |-> groups', version |-> version',
     fks |-> fks', memo |-> memo', fast_all_fks |-> fast_all_fks',
     link_names |-> link_names',
     link_names_with_collisions |-> link_names_with_collisions']

\* the step is a call of this name that ended this way
Called(op, exc) == js' = js /\ last' = [op |-> op, exc |-> exc]

(***************************************************************************)
(* C1  After any sequence of add_urdf, add_world_body, delete_branch_at_   *)
(* joint, delete_branch and delete_group calls, succeeding or raising, the *)
(* link and joint maps form a single tree rooted at root_link_name.        *)
(***************************************************************************)
C1_SingleTree == SingleTree(W)

(***************************************************************************)
(* C2  A successful add_urdf, add_world_body, register_group, move_branch  *)
(* or delete_branch_at_joint (and the calls that wrap them) leaves version *)
(* strictly greater; no step lowers version, hard_reset included; no query *)
(* changes it.  compute_chain and compute_split_chain assign nothing: a    *)
(* step of theirs changes no variable, version least of all.               *)
(***************************************************************************)
BumpingCalls ==
    {"add_urdf", "add_world_body", "register_group", "move_branch", "move_group",
     "delete_branch_at_joint", "delete_branch", "delete_group"}

QueryCalls == {"compute_fk_np", "compute_all_fks", "links", "joints"}

C2_VersionGrows ==
    [][/\ version' >= version
       /\ \A op \in BumpingCalls : Called(op, "ok") => version' > version
       /\ js' = js /\ last'.op \in QueryCalls => version' = version]_vars

C2_Witness ==
    /\ last = [op |-> "delete_branch_at_joint", exc |-> "ok"]
    /\ version > world_tree_init.w.version

(***************************************************************************)
(* C3  After a completed add_urdf, add_world_body, register_group,         *)
(* move_branch or delete_branch_at_joint, reading a registered group's     *)
(* links and joints returns the sets a fresh traversal from the group's    *)
(* root link gives, not a membership cached before the mutation.           *)
(***************************************************************************)
CompletedMutation ==
    /\ last.exc = "ok"
    /\ last.op \in {"add_urdf", "add_world_body", "register_group", "move_branch",
                    "delete_branch_at_joint"}

ReadsFresh(i) ==
    LET fresh(t) ==
            t.exc = "ok" => /\ group_links(W, i) = P(group_links(W, i).w, "ok", t.links)
                            /\ group_joints(W, i) = P(group_joints(W, i).w, "ok", t.joints)
    IN fresh(traverse(W, groups[i].root_link_name))

C3_MembersFresh == CompletedMutation => \A i \in 1..Len(groups) : ReadsFresh(i)

\* a completed mutation after which a group still holds a cached membership
C3_Witness ==
    /\ CompletedMutation
    /\ \E i \in 1..Len(groups) :
          /\ groups[i].links # {}
          /\ Cardinality(TheOne(groups[i].links)) > 1

(***************************************************************************)
(* C4  As stated: every version bump empties the evaluator cache _fks and  *)
(* clears the memoized results.                                            *)
(***************************************************************************)
C4_BumpEmptiesFks == [][version' # version => fks' = Empty /\ memo' = Empty]_vars

(***************************************************************************)
(* C4  As the code has it: every version bump clears the memoized results  *)
(* and drops every evaluator compiled before it; the evaluators _fks holds *)
(* after the bump are those the groups' reset compiled, from the root link *)
(* to a group's root link, for the structure as the mutation left it.      *)
(***************************************************************************)
C4_BumpRenewsFks ==
    [][version' # version =>
          /\ memo' = Empty
          /\ \A key \in DOMAIN fks' :
                /\ key[1] = root_link_name
                /\ \E i \in 1..Len(groups') : groups'[i].root_link_name = key[2]
                /\ fks'[key] = compose_fk_expression(WAfter, key[1], key[2]).expr]_vars

\* a body has been added: the bump left the memoized results empty and
\* _fks with the evaluators the groups' reset compiled
C4_Witness ==
    /\ last = [op |-> "add_world_body", exc |-> "ok"]
    /\ fks # Empty
    /\ memo = Empty

(***************************************************************************)
(* C5  When compute_all_fks has been called and a mutation has then changed*)
(* the set of links with collisions, the next compute_all_fks succeeds and *)
(* its batch evaluator is one for the links that have collisions now.      *)
(***************************************************************************)
C5_BatchRebuilt ==
    [][(/\ js' = js /\ last'.op = "compute_all_fks"
        /\ SingleTree(W)
        /\ fast_all_fks # {}
        /\ DOMAIN TheOne(fast_all_fks) # links_with_collisions(W) \ {root_link_name})
       => /\ last'.exc = "ok"
          /\ DOMAIN TheOne(fast_all_fks') = links_with_collisions(W) \ {root_link_name}]_vars

(***************************************************************************)
(* C6  A link_joint_to_links that raises DuplicateNameException leaves the *)
(* joints map, the links map and every child_joint_names as they were.     *)
(***************************************************************************)
C6_DuplicateLeavesMaps ==
    [][Called("link_joint_to_links", "DuplicateNameException")
       => joints' = joints /\ links' = links]_vars

(***************************************************************************)
(* C7  On a tree, add_urdf raises DuplicateNameException when the group    *)
(* name asked for, or a link or joint name of the description, is already  *)
(* there (the parent link being one of the tree), and fails when the       *)
(* parent link is not a link of the tree; whenever it fails, links,        *)
(* joints, groups and version are what they were before the call.          *)
(***************************************************************************)
UrdfLinkNames(urdf, prefix) ==
    {PrefixName(n, prefix) : n \in {urdf.root} \cup DOMAIN urdf.link_map}

UrdfJointNames(urdf, prefix) == {PrefixName(n, prefix) : n \in DOMAIN urdf.joint_map}

\* the call left links, joints, groups and version as they are in this state
LeavesTree(r) ==
    /\ r.w.links = links
    /\ r.w.joints = joints
    /\ Registry(r.w.groups) = Registry(groups)
    /\ r.w.version = version

AddUrdfFailsCleanly(r, taken, parent_known) ==
    /\ taken /\ parent_known => r.exc = "DuplicateNameException"
    /\ ~parent_known => r.exc # "ok"
    /\ r.exc # "ok" => LeavesTree(r)

C7_FailedAddUrdfLeavesTree ==
    SingleTree(W) =>
        \A parent \in ParentArgs, group_name \in {None, "shelf"} :
            AddUrdfFailsCleanly(
                add_urdf(W, ShelfUrdf, None, parent, group_name),
                \/ group_name \in GroupNames(W)
                \/ UrdfLinkNames(ShelfUrdf, None) \cap DOMAIN links # {}
                \/ UrdfJointNames(ShelfUrdf, None) \cap DOMAIN joints # {},
                parent = None \/ parent \in DOMAIN links)

(***************************************************************************)
(* C8  On a tree, add_world_body with a body name that is already a link   *)
(* name, a joint name or a group name raises DuplicateNameException and    *)
(* leaves links, joints, groups and version unchanged: a primitive body    *)
(* named as an existing group adds no link and no joint.                   *)
(***************************************************************************)
DuplicateBodyRefused(r) == r.exc = "DuplicateNameException" /\ LeavesTree(r)

C8_DuplicateBodyLeavesTree ==
    SingleTree(W) =>
        \A msg \in Bodies, pose \in Poses :
            msg.name \in DOMAIN links \cup DOMAIN joints \cup GroupNames(W)
            => DuplicateBodyRefused(add_world_body(W, msg, pose, None))

(***************************************************************************)
(* C9  After move_branch returns, for any existing link as the new parent, *)
(* a link inside the moved subtree included, the maps are still a single   *)
(* tree and the sets of link names and joint names are unchanged.          *)
(***************************************************************************)
C9_MoveKeepsTree ==
    [][Called("move_branch", "ok") /\ SingleTree(W)
       => /\ SingleTree(WAfter)
          /\ DOMAIN links' = DOMAIN links
          /\ DOMAIN joints' = DOMAIN joints]_vars

(***************************************************************************)
(* C10  For a fixed joint j with child link c and a link p outside c's     *)
(* subtree, the pose in the root frame of c and of every link below it is  *)
(* the same after move_branch(j, p) as before, at the same joint state.    *)
(* The joint moved is the one whose record the step changed, p its new     *)
(* parent.                                                                 *)
(***************************************************************************)
C10_MoveKeepsPoses ==
    [][Called("move_branch", "ok") /\ SingleTree(W) =>
          \A j \in DOMAIN joints :
              (/\ joints'[j] # joints[j]
               /\ joints'[j].parent_link_name
                      \notin traverse(W, joints[j].child_link_name).links)
              => \A l \in traverse(W, joints[j].child_link_name).links :
                    RootPose(WAfter, l, js) = RootPose(W, l, js)]_vars

(***************************************************************************)
(* C11  move_branch on a movable joint fails, whatever the new parent, and *)
(* leaves the joint's parent link and transform, every child_joint_names   *)
(* and version as they were.                                               *)
(***************************************************************************)
MovableRefused(r) ==
    /\ r.exc = "NotImplementedError"
    /\ r.w.joints = joints
    /\ r.w.links = links
    /\ r.w.version = version

C11_MovableJointStays ==
    \A joint_name \in JointArgs, parent \in LinkArgs \cup {"ghost"} :
        ~joints[joint_name].fixed
        => MovableRefused(move_branch(W, joint_name, parent, js))

\* move_branch has been called on a movable joint of the tree
C11_Witness ==
    /\ last = [op |-> "move_branch", exc |-> "NotImplementedError"]
    /\ \E joint_name \in JointArgs :
          /\ ~joints[joint_name].fixed
          /\ joints[joint_name].child_link_name \in LinkArgs

(***************************************************************************)
(* C12  On a tree, delete_branch_at_joint(j) removes from joints exactly j *)
(* and the joints below j's child link, from links exactly j's child link  *)
(* and its descendants, and j from its parent's child_joint_names; every   *)
(* other link, joint and child_joint_names is left as it was.              *)
(***************************************************************************)
BranchRemoved(r, parent, j, branch) ==
    /\ r.exc = "ok"
    /\ r.w.joints = [k \in DOMAIN joints \ ({j} \cup branch.joints) |-> joints[k]]
    /\ r.w.links =
          [l \in DOMAIN links \ branch.links |->
              IF l = parent
              THEN [links[l] EXCEPT !.child_joint_names = RemoveFirst(@, j)]
              ELSE links[l]]
    /\ Count(r.w.links[parent].child_joint_names, j) = 0

C12_DeleteRemovesBranch ==
    SingleTree(W) =>
        \A joint_name \in JointArgs :
            BranchRemoved(delete_branch_at_joint(W, joint_name),
                          joints[joint_name].parent_link_name, joint_name,
                          traverse(W, joints[joint_name].child_link_name))

\* the robot's branch, a link with a joint and a link below it, is deleted
\* and another branch of the tree is still there
C12_Witness ==
    /\ last = [op |-> "delete_branch_at_joint", exc |-> "ok"]
    /\ "base" \notin DOMAIN links
    /\ "arm" \notin DOMAIN links
    /\ DOMAIN joints # {}
    /\ SingleTree(W)

(***************************************************************************)
(* C13  On a tree, after delete_branch_at_joint(j) a registered group is   *)
(* still registered exactly when its root link is not in the removed       *)
(* branch; and in every reachable state every registered group's root link *)
(* is a link of the tree.                                                  *)
(***************************************************************************)
GroupsOutsideKept(r, branch) ==
    r.exc = "ok" =>
        Registry(r.w.groups)
            = Registry(SelectSeq(groups, LAMBDA g : g.root_link_name \notin branch.links))

C13_GroupsFollowBranch ==
    /\ \A i \in 1..Len(groups) : groups[i].root_link_name \in DOMAIN links
    /\ SingleTree(W) =>
          \A joint_name \in JointArgs :
              GroupsOutsideKept(delete_branch_at_joint(W, joint_name),
                                traverse(W, joints[joint_name].child_link_name))

\* a branch with a group rooted in it was deleted, and a group is left
C13_Witness ==
    /\ last = [op |-> "delete_branch_at_joint", exc |-> "ok"]
    /\ RobotName \notin GroupNames(W)
    /\ groups # <<>>

(***************************************************************************)
(* C14  Every structural mutation invoked on a group - register_group,     *)
(* link_joint_to_links, add_urdf, add_world_body, move_branch, move_group, *)
(* delete_branch, delete_branch_at_joint, delete_group, hard_reset - fails *)
(* and leaves the owning tree's links (their child_joint_names), joints    *)
(* (their parent links and transforms), groups and version unchanged.      *)
(***************************************************************************)
C14_GroupCallsLeaveTree ==
    [][js' = js /\ last'.op \in GroupCalls /\ SingleTree(W)
       => /\ last'.exc # "ok"
          /\ links' = links
          /\ joints' = joints
          /\ Registry(groups') = Registry(groups)
          /\ version' = version]_vars

(***************************************************************************)
(* Paths of a tree, told from the parent pointers and the subtrees.        *)
(***************************************************************************)
\* the link a link hangs on
ParentLink(w, l) == w.joints[w.links[l].parent_joint_name].parent_link_name

\* the links l lies below, l among them
Ancestors(w, l) == {x \in DOMAIN w.links : l \in traverse(w, x).links}

\* the lowest link both a and b lie below
Lca(w, a, b) ==
    CHOOSE c \in Ancestors(w, a) \cap Ancestors(w, b) :
        \A d \in Ancestors(w, a) \cap Ancestors(w, b) : d \in Ancestors(w, c)

\* p lists the links from link from up to, but excluding, its ancestor to
IsPathUp(w, p, from, to) ==
    IF p = <<>> THEN from = to
    ELSE /\ p[1] = from
         /\ \A k \in 1..(Len(p) - 1) : p[k] # to /\ p[k + 1] = ParentLink(w, p[k])
         /\ p[Len(p)] # to
         /\ ParentLink(w, p[Len(p)]) = to

(***************************************************************************)
(* C15  On a tree, compute_chain(root, tip) with joints, links, fixed and  *)
(* non_controlled all set ends; for a tip in root's subtree (root itself   *)
(* included) it returns link, joint, link, ... from root to tip, every     *)
(* joint having the link before it as parent and the link after it as      *)
(* child; for another link of the tree as tip it raises the not-connected  *)
(* ValueError.                                                             *)
(***************************************************************************)
Alternates(w, chain, root, tip) ==
    /\ Len(chain) % 2 = 1
    /\ chain[1] = root
    /\ chain[Len(chain)] = tip
    /\ \A k \in 1..Len(chain) :
          IF k % 2 = 1 THEN chain[k] \in DOMAIN w.links
          ELSE /\ chain[k] \in DOMAIN w.joints
               /\ w.joints[chain[k]].parent_link_name = chain[k - 1]
               /\ w.joints[chain[k]].child_link_name = chain[k + 1]

ChainRight(w, c, root, tip) ==
    IF tip \in traverse(w, root).links
    THEN c.exc = "ok" /\ Alternates(w, c.chain, root, tip)
    ELSE c.exc = "ValueError"

C15_ChainAlternates ==
    SingleTree(W) =>
        \A root \in LinkArgs, tip \in LinkArgs :
            ChainRight(W, compute_chain(W, root, tip, AllFlags), root, tip)

\* compute_chain found two links not connected, on a tree with a link two
\* joints below the root link
C15_Witness ==
    /\ last = [op |-> "compute_chain", exc |-> "ValueError"]
    /\ SingleTree(W)
    /\ \E tip \in LinkArgs :
          Len(compute_chain(W, root_link_name, tip, AllFlags).chain) >= 5

(***************************************************************************)
(* C16  On a tree, for any two links a and b, a = b and one above the      *)
(* other included, compute_split_chain(a, b) with links only returns       *)
(* (p, [lca], q): lca the lowest common ancestor of a and b, p the links   *)
(* from a up to but excluding lca, q the links from just below lca down to *)
(* b.                                                                      *)
(***************************************************************************)
SplitRight(w, sc, a, b, lca) ==
    /\ sc.exc = "ok"
    /\ sc.connection = <<lca>>
    /\ IsPathUp(w, sc.root_chain, a, lca)
    /\ IsPathUp(w, Reverse(sc.tip_chain), b, lca)

C16_SplitAtLca ==
    SingleTree(W) =>
        \A a \in LinkArgs, b \in LinkArgs :
            SplitRight(W, compute_split_chain(W, a, b, LinkFlags), a, b, Lca(W, a, b))

(***************************************************************************)
(* C17  On a tree, for any two links a and b and any joint positions, the  *)
(* transform from a to b times the transform from b to a is the identity.  *)
(***************************************************************************)
AllValues == [Symbols -> JointValues]

Fk(e, values) == EvalExpr(e.expr, values)

InverseFks(f, g) ==
    /\ f.exc = "ok"
    /\ g.exc = "ok"
    /\ \A values \in AllValues : dot(Fk(f, values), Fk(g, values)) = eye

C17_FkThereAndBack ==
    SingleTree(W) =>
        \A a \in LinkArgs, b \in LinkArgs :
            InverseFks(compose_fk_expression(W, a, b), compose_fk_expression(W, b, a))

\* a transform was composed on a tree with two links on different branches
\* whose transform, through a movable joint, is not the identity
C17_Witness ==
    /\ last = [op |-> "compose_fk_expression", exc |-> "ok"]
    /\ SingleTree(W)
    /\ \E a \in LinkArgs, b \in LinkArgs :
          /\ Lca(W, a, b) \notin {a, b}
          /\ \E k \in 1..Len(compose_fk_expression(W, a, b).expr) :
                compose_fk_expression(W, a, b).expr[k].T.symbol # None
          /\ \E values \in AllValues : Fk(compose_fk_expression(W, a, b), values) # eye

(***************************************************************************)
(* C18  On a tree, for any links a and c and any link b on the path        *)
(* between them, the transform from a to c is the transform from a to b    *)
(* times the transform from b to c, at any joint positions.                *)
(***************************************************************************)
OnPath(w, b, a, c) ==
    /\ b \in Ancestors(w, a) \cup Ancestors(w, c)
    /\ Lca(w, a, c) \in Ancestors(w, b)

ComposedFks(ac, ab, bc) ==
    /\ ac.exc = "ok"
    /\ ab.exc = "ok"
    /\ bc.exc = "ok"
    /\ \A values \in AllValues :
          Fk(ac, values) = dot(Fk(ab, values), Fk(bc, values))

C18_FkComposes ==
    SingleTree(W) =>
        \A a \in LinkArgs, c \in LinkArgs :
            \A b \in {l \in LinkArgs : OnPath(W, l, a, c)} :
                ComposedFks(compose_fk_expression(W, a, c),
                            compose_fk_expression(W, a, b),
                            compose_fk_expression(W, b, c))

\* a transform was composed on a tree where a path between two branches
\* passes a link that is neither an end nor the lowest common ancestor
C18_Witness ==
    /\ last = [op |-> "compose_fk_expression", exc |-> "ok"]
    /\ SingleTree(W)
    /\ \E a \in LinkArgs, c \in LinkArgs :
          /\ Lca(W, a, c) \notin {a, c}
          /\ \E b \in LinkArgs : OnPath(W, b, a, c) /\ b \notin {a, c, Lca(W, a, c)}

(***************************************************************************)
(* C19  Every key of a table collision_goals_to_collision_matrix returns   *)
(* names a robot link, a body and a link of that body: ALL stands in no    *)
(* position of a key, also for an object whose links the request gave as   *)
(* ALL.                                                                    *)
(***************************************************************************)
C19_KeysAreNames ==
    Resolved /\ last.exc = "ok" =>
        \A key \in DOMAIN collision_matrix :
            key[1] # ALL /\ key[2] # ALL /\ key[3] # ALL

(***************************************************************************)
(* C20  A table collision_goals_to_collision_matrix returns holds, for any *)
(* two different robot links a and b, at most one of the keys              *)
(* (a, robot, b) and (b, robot, a).                                        *)
(***************************************************************************)
C20_PairsStoredOnce ==
    Resolved /\ last.exc = "ok" =>
        \A a \in DOMAIN TheRobot.links, b \in DOMAIN TheRobot.links :
            a # b => ~(/\ <<a, RobotName, b>> \in DOMAIN collision_matrix
                       /\ <<b, RobotName, a>> \in DOMAIN collision_matrix)

(***************************************************************************)
(* C21  When the last request of a resolved list is AVOID for one robot    *)
(* link l, a named body B and one link m, the table maps (l, B, m) to the  *)
(* distance that request gives; and the list of the single request         *)
(* {AVOID, ALL, ALL, ALL, d} resolves every triple to d.                   *)
(***************************************************************************)
Named(names) == Len(names) = 1 /\ names[1] # ALL

LastRequest == requested[Len(requested)]

ReturnedTable == Resolved /\ last.exc = "ok"

C22_AllowRemovesBothOrders ==
    /\ ReturnedTable /\ requested # <<>>
    /\ LastRequest.type = "ALLOW_COLLISION"
    /\ Named(LastRequest.robot_links)
    /\ LastRequest.body_b = RobotName
    /\ Named(LastRequest.link_bs)
    => /\ <<LastRequest.robot_links[1], RobotName, LastRequest.link_bs[1]>>
              \notin DOMAIN collision_matrix
       /\ <<LastRequest.link_bs[1], RobotName, LastRequest.robot_links[1]>>
              \notin DOMAIN collision_matrix

(***************************************************************************)
(* C23  A resolved list that holds a catch-all request (AVOID or ALLOW     *)
(* with ALL robot links, ALL bodies and ALL links) resolves to the table   *)
(* of its suffix that begins at the last catch-all: the requests before    *)
(* the last catch-all do not show in the table.                            *)
(***************************************************************************)
CatchAll(ce) ==
    /\ ce.type \in {"AVOID_COLLISION", "ALLOW_COLLISION",
                    "AVOID_ALL_COLLISIONS", "ALLOW_ALL_COLLISIONS"}
    /\ ce.robot_links \in {<<>>, <<ALL>>}
    /\ ce.body_b = ALL
    /\ ce.link_bs \in {<<>>, <<ALL>>}

CatchAlls(goals) == {k \in 1..Len(goals) : CatchAll(goals[k])}

FromLastCatchAll(goals) ==
    SubSeq(goals, CHOOSE k \in CatchAlls(goals) : \A j \in CatchAlls(goals) : j <= k,
           Len(goals))

SameTable(r) == r.exc = "ok" /\ r.table = collision_matrix

C23_EarlierRequestsCutOff ==
    ReturnedTable /\ CatchAlls(requested) # {} =>
        SameTable(collision_goals_to_collision_matrix(FromLastCatchAll(requested),
                                                      MinDist))

\* a list was resolved whose last request is a catch-all and whose first is
\* an AVOID of a pair of robot links that the table does not hold
C23_Witness ==
    /\ ReturnedTable
    /\ Len(requested) = 2
    /\ CatchAlls(requested) = {2}
    /\ requested[1].type = "AVOID_COLLISION"
    /\ Named(requested[1].robot_links) /\ Named(requested[1].link_bs)
    /\ <<requested[1].robot_links[1], requested[1].body_b, requested[1].link_bs[1]>>
           \notin DOMAIN collision_matrix

(***************************************************************************)
(* C24  A resolved list without catch-all request resolves to the table of *)
(* the same list with the request AVOID, ALL, ALL, ALL put before it; the  *)
(* empty list resolves as the list of that one request.                    *)
(***************************************************************************)
AvoidAll == CollisionEntry("AVOID_COLLISION", <<ALL>>, ALL, <<ALL>>, 0)

C24_AvoidAllIsTheBaseline ==
    ReturnedTable /\ CatchAlls(requested) = {} =>
        SameTable(collision_goals_to_collision_matrix(<<AvoidAll>> \o requested,
                                                      MinDist))

\* a list of two requests, none of them a catch-all, was resolved, and its
\* table holds pairs that no request of the list names
C24_Witness ==
    /\ ReturnedTable
    /\ Len(requested) = 2
    /\ CatchAlls(requested) = {}
    /\ \E key \in DOMAIN collision_matrix :
           \A k \in 1..2 : key[1] \notin SeqToSet(requested[k].robot_links)

\* the empty list was resolved
C24_EmptyListResolved ==
    ReturnedTable /\ requested = <<>> /\ collision_matrix # Empty

(***************************************************************************)
(* C25  For a robot link l and an object B, the list AVOID, ALL, ALL, ALL  *)
(* followed by ALLOW, l, B, ALL resolves to the table of the list AVOID,   *)
(* ALL, ALL, ALL alone without exactly the pairs of l with B.              *)
(***************************************************************************)
TableWithout(table, l, B) ==
    [key \in {k \in DOMAIN table : ~(k[1] = l /\ k[2] = B)} |-> table[key]]

AllowsLinkWithObject ==
    /\ Len(requested) = 2
    /\ requested[1] = AvoidAll
    /\ requested[2].type = "ALLOW_COLLISION"
    /\ Len(requested[2].robot_links) = 1
    /\ requested[2].robot_links[1] \in DOMAIN TheRobot.links
    /\ requested[2].body_b \in SeqToSet(get_object_names)
    /\ requested[2].link_bs = <<ALL>>

C25_AllowRemovesTheObject ==
    Resolved /\ AllowsLinkWithObject =>
        /\ last.exc = "ok"
        /\ collision_matrix =
               TableWithout(collision_goals_to_collision_matrix(<<AvoidAll>>,
                                                                MinDist).table,
                            requested[2].robot_links[1], requested[2].body_b)

\* such a list was resolved, and the table of the avoid-all alone holds
\* pairs of the link with the object that the resolved table has lost
C25_Witness ==
    /\ Resolved /\ AllowsLinkWithObject
    /\ \E key \in DOMAIN collision_goals_to_collision_matrix(<<AvoidAll>>,
                                                             MinDist).table :
           /\ key[1] = requested[2].robot_links[1]
           /\ key[2] = requested[2].body_b
           /\ key \notin DOMAIN collision_matrix

(***************************************************************************)
(* C26  Of the pairs (x, robot, y) that an avoid-all-self-collision puts   *)
(* into the table: when exactly one of the two links is below a controlled *)
(* joint, the claim has that link as y, and the code has it as x; when     *)
(* both are, x is before y in the order of names.                          *)
(***************************************************************************)
BelowControlledJoint(link_name) ==
    get_controlled_parent_joint_of_link(TheRobot, link_name).exc = "ok"

\* the resolved list holds nothing but requests to avoid all collisions of
\* the robot with itself or with everything, so that every pair of robot
\* links in the table was stored by get_robot_collision_matrix
OnlyAvoidAllSelfCollision ==
    /\ ReturnedTable
    /\ requested # <<>>
    /\ \A k \in 1..Len(requested) :
           /\ requested[k].type = "AVOID_COLLISION"
           /\ requested[k].robot_links = <<ALL>>
           /\ requested[k].body_b \in {ALL, RobotName}
           /\ requested[k].link_bs = <<ALL>>
    /\ \E k \in 1..Len(requested) : requested[k].body_b = RobotName

SelfCollisionKeys == {key \in DOMAIN collision_matrix : key[2] = RobotName}

\* the claim as it stands
C26_ControlledLinkLast ==
    OnlyAvoidAllSelfCollision =>
        \A key \in SelfCollisionKeys :
            /\ BelowControlledJoint(key[1]) /\ ~BelowControlledJoint(key[3]) => FALSE
            /\ BelowControlledJoint(key[1]) /\ BelowControlledJoint(key[3])
                   => Earlier(key[1], key[3])

\* the claim as amended: the one link below a controlled joint is x
C26_ControlledLinkFirst ==
    OnlyAvoidAllSelfCollision =>
        \A key \in SelfCollisionKeys :
            /\ ~BelowControlledJoint(key[1]) /\ BelowControlledJoint(key[3]) => FALSE
            /\ BelowControlledJoint(key[1]) /\ BelowControlledJoint(key[3])
                   => Earlier(key[1], key[3])

\* the table holds a pair with one link below a controlled joint and a pair
\* with both
C26_Witness ==
    /\ OnlyAvoidAllSelfCollision
    /\ \E key \in SelfCollisionKeys :
           BelowControlledJoint(key[1]) # BelowControlledJoint(key[3])
    /\ \E key \in SelfCollisionKeys :
           BelowControlledJoint(key[1]) /\ BelowControlledJoint(key[3])

(***************************************************************************)
(* C27  A resolved list whose requests all pass the wildcard checks and in *)
(* which some request, wherever it stands, names a body that is neither    *)
(* the robot nor an object, a robot link the robot has not, or a link the  *)
(* named body has not, ends with UnknownBodyException: no table is built   *)
(* and no request of the caller's list has been expanded.                  *)
(***************************************************************************)
PassesWildcardChecks(ce) ==
    /\ ALL \in SeqToSet(ce.robot_links) => Len(ce.robot_links) = 1
    /\ ALL \in SeqToSet(ce.link_bs) => Len(ce.link_bs) = 1
    /\ ce.body_b = ALL => ce.link_bs \in {<<>>, <<ALL>>}

LinksOfBody(body) ==
    IF body = RobotName THEN DOMAIN TheRobot.links
    ELSE TheObjects[body].link_names

NamesUnknown(ce) ==
    \/ ce.body_b \notin {ALL, RobotName} \cup SeqToSet(get_object_names)
    \/ \E l \in SeqToSet(ce.robot_links) \ {ALL} : l \notin DOMAIN TheRobot.links
    \/ /\ ce.body_b \in {RobotName} \cup SeqToSet(get_object_names)
       /\ \E l \in SeqToSet(ce.link_bs) \ {ALL} : l \notin LinksOfBody(ce.body_b)

UnknownNameRequested ==
    /\ Resolved
    /\ \A k \in 1..Len(requested) : PassesWildcardChecks(requested[k])
    /\ \E k \in 1..Len(requested) : NamesUnknown(requested[k])

NotExpanded ==
    /\ Len(collision_goal) = Len(requested)
    /\ \A k \in 1..Len(requested) :
           /\ collision_goal[k].robot_links = requested[k].robot_links
           /\ collision_goal[k].body_b = requested[k].body_b
           /\ collision_goal[k].link_bs = requested[k].link_bs
           /\ collision_goal[k].min_dist = requested[k].min_dist

C27_UnknownNamesRaiseFirst ==
    UnknownNameRequested =>
        /\ last.exc = "UnknownBodyException"
        /\ collision_matrix = Empty
        /\ NotExpanded

\* the unknown name stands before a catch-all
C27_Witness ==
    /\ UnknownNameRequested
    /\ Len(requested) = 2
    /\ NamesUnknown(requested[1])
    /\ CatchAll(requested[2])

\* the list with the unknown name holds a request with two robot links,
\* which the expansion would split
C27_UnknownInSplittable ==
    /\ UnknownNameRequested
    /\ \E k \in 1..Len(requested) : Len(requested[k].robot_links) = 2

(***************************************************************************)
(* C28  A resolved list with a request that holds ALL next to another name *)
(* among its robot links or among its links of body b, or that has ALL as  *)
(* body b and names links of it, ends with PhysicsWorldException, and no   *)
(* table is built.                                                         *)
(***************************************************************************)
MalformedRequested ==
    /\ Resolved
    /\ \E k \in 1..Len(requested) : ~PassesWildcardChecks(requested[k])

C28_MalformedRequestsRejected ==
    MalformedRequested =>
        /\ last.exc = "PhysicsWorldException"
        /\ collision_matrix = Empty

\* the malformed request holds ALL next to the name of a link, and stands
\* behind a request with an unknown name
C28_Witness ==
    /\ MalformedRequested
    /\ Len(requested) = 2
    /\ NamesUnknown(requested[1]) /\ PassesWildcardChecks(requested[1])
    /\ \/ ALL \in SeqToSet(requested[2].robot_links) /\ Len(requested[2].robot_links) = 2
       \/ ALL \in SeqToSet(requested[2].link_bs) /\ Len(requested[2].link_bs) = 2

\* the malformed request has ALL as body b and names a link
C28_LinksOfAllBodies ==
    /\ MalformedRequested
    /\ \E k \in 1..Len(requested) :
           requested[k].body_b = ALL /\ ALL \notin SeqToSet(requested[k].link_bs)
                                     /\ requested[k].link_bs # <<>>

(***************************************************************************)
(* C29  collision_goals_to_collision_matrix leaves the caller's list as it *)
(* was handed over, whether it returns a table or raises: the same         *)
(* requests in the same order, each with the same type, robot links, body  *)
(* b, links of body b and distance.                                        *)
(***************************************************************************)
C29_InputUnchanged ==
    Resolved => collision_goal = requested

(***************************************************************************)
(* C30  Handing the list that a call has resolved to a second call, the    *)
(* same list object as the first call left it, gives the table that the    *)
(* first call gave.                                                        *)
(***************************************************************************)
C30_SameTableAgain ==
    ReturnedTable =>
        SameTable(collision_goals_to_collision_matrix(collision_goal, MinDist))

\* the first call left the list other than it was handed over
C30_Witness ==
    /\ ReturnedTable
    /\ collision_goal # requested
    /\ Len(requested) = 2
    /\ collision_matrix # Empty

(***************************************************************************)
(* C31  set_joint_limits with the candidate L of a movable joint that is   *)
(* no mimic leaves, at the order of the call, the upper limit at the       *)
(* smaller of the old upper limit and L and the lower limit at the larger  *)
(* of the old lower limit and -L; a missing upper limit becomes L, a       *)
(* missing lower limit -L.                                                 *)
(***************************************************************************)
RECURSIVE Value(_)
Value(limit) ==
    IF limit.fn = "num" THEN limit.v
    ELSE LET a == Value(limit.a)
             b == Value(limit.b)
         IN IF limit.fn = "fmin" THEN (IF a < b THEN a ELSE b)
            ELSE (IF a > b THEN a ELSE b)

Tightest(old, candidate, upper) ==
    IF old = NoLimit THEN candidate
    ELSE IF upper THEN (IF Value(old) < candidate THEN Value(old) ELSE candidate)
    ELSE (IF Value(old) > candidate THEN Value(old) ELSE candidate)

C31_TightestLimits ==
    [][last'.op = "set_joint_limits" =>
          \A n \in DOMAIN limits :
              limits[n].class \in {"RevoluteJoint", "ContinuousJoint", "PrismaticJoint"} =>
                  LET L == IF limits[n].class = "PrismaticJoint"
                           THEN last'.linear_limits ELSE last'.angular_limits
                      o == last'.order
                  IN /\ limits'[n].upper_limits[o] # NoLimit
                     /\ limits'[n].lower_limits[o] # NoLimit
                     /\ Value(limits'[n].upper_limits[o])
                            = Tightest(limits[n].upper_limits[o], L, TRUE)
                     /\ Value(limits'[n].lower_limits[o])
                            = Tightest(limits[n].lower_limits[o], -L, FALSE)]_vars

(***************************************************************************)
(* C32  has_collisions(volume_threshold, surface_threshold) answers True   *)
(* exactly when one of the link's collision geometries is significant for  *)
(* the thresholds passed: a mesh always, a box or a cylinder with a volume *)
(* above volume_threshold or a surface above surface_threshold, a sphere   *)
(* with a volume above volume_threshold.                                   *)
(***************************************************************************)
Significant(geo, volume_threshold, surface_threshold) ==
    \/ geo.class = "MeshGeometry"
    \/ /\ geo.class = "BoxGeometry"
       /\ \/ geo.depth * geo.width * geo.height > volume_threshold
          \/ cube_surface(geo.depth, geo.width, geo.height) > surface_threshold
    \/ /\ geo.class = "CylinderGeometry"
       /\ \/ cylinder_volume(geo.radius, geo.height) > volume_threshold
          \/ cylinder_surface(geo.radius, geo.height) > surface_threshold
    \/ /\ geo.class = "SphereGeometry"
       /\ sphere_volume(geo.radius) > volume_threshold

C32_ThresholdsPassedDecide ==
    last.op = "has_collisions" =>
        (last.val <=> \E k \in 1..Len(last.collisions) :
                          Significant(last.collisions[k], last.volume_threshold,
                                      last.surface_threshold))

(***************************************************************************)
(* C34  In the list the pipeline hands to the final loop, no request whose *)
(* body b is an object has ALL as its links of body b: each such request   *)
(* of the verified list is there once per link with collision of the       *)
(* object, whether or not another request names links of that body.        *)
(***************************************************************************)
Pipeline == verify_collision_entries(requested)

C34_ObjectLinksExpanded ==
    Resolved /\ Pipeline.exc = "ok" =>
        \A k \in 1..Len(Pipeline.goals) :
            Pipeline.goals[k].body_b \in SeqToSet(get_object_names) =>
                /\ Pipeline.goals[k].link_bs # <<ALL>>
                /\ Pipeline.goals[k].link_bs[1]
                       \in SeqToSet(TheObjects[Pipeline.goals[k].body_b]
                                        .link_names_with_collision)

(***************************************************************************)
(* C35  A request of a legacy type, AVOID_ALL_COLLISIONS or                *)
(* ALLOW_ALL_COLLISIONS, is resolved as the catch-all of its kind whatever *)
(* its robot links, body b and links of body b hold: the list resolves as  *)
(* the list with the catch-all in the request's place.                     *)
(***************************************************************************)
Legacy(ce) == ce.type \in {"AVOID_ALL_COLLISIONS", "ALLOW_ALL_COLLISIONS"}

AsCatchAll(ce) ==
    IF Legacy(ce)
    THEN CollisionEntry(IF ce.type = "AVOID_ALL_COLLISIONS"
                        THEN "AVOID_COLLISION" ELSE "ALLOW_COLLISION",
                        <<ALL>>, ALL, <<ALL>>, ce.min_dist)
    ELSE ce

LegacyAsCatchAll ==
    collision_goals_to_collision_matrix(
        [k \in 1..Len(requested) |-> AsCatchAll(requested[k])], MinDist)

C35_LegacyTypesAreCatchAlls ==
    Resolved /\ (\E k \in 1..Len(requested) : Legacy(requested[k])) =>
        /\ last.exc = LegacyAsCatchAll.exc
        /\ last.exc = "ok" => collision_matrix = LegacyAsCatchAll.table

(***************************************************************************)
(* C36  On a single tree search_for_parent_joint(j, stop_when) ends for    *)
(* every joint j and every predicate: it returns the nearest joint above j *)
(* of which stop_when holds, and raises KeyError when it holds of no joint *)
(* above j.                                                                *)
(***************************************************************************)
\* the joints above joint j: the parent joints of the links its parent link
\* lies below
JointsAbove(w, j) ==
    {w.links[l].parent_joint_name :
        l \in Ancestors(w, w.joints[j].parent_link_name)} \ {None}

HoldsOf(w, stop_when, j) ==
    IF stop_when = "is_joint_controlled" THEN j \in controlled_joints
    ELSE IF stop_when = "has_joint" THEN TRUE
    ELSE IF stop_when = "is_joint_fixed" THEN w.joints[j].fixed
    ELSE ~w.joints[j].fixed

SearchRight(w, j, stop_when, r) ==
    LET found == {a \in JointsAbove(w, j) : HoldsOf(w, stop_when, a)}
    IN /\ r.exc \in {"ok", "KeyError"}
       /\ found = {} => r.exc = "KeyError"
       /\ found # {} =>
             /\ r.exc = "ok"
             /\ r.val \in found
             /\ \A b \in found \ {r.val} : b \in JointsAbove(w, r.val)

C37_FkAtTheJointStateOfTheCall ==
    \A key \in DOMAIN memo \cap DOMAIN fks :
        LET r == compute_fk_np(W, key[1], key[2], js)
        IN r.exc = "ok" /\ r.val = EvalExpr(fks[key], js)

\* C38: every value of a resolved table is the distance the min_dist
\* argument holds for the robot link of its own key, the first name of the
\* triple, also for the triples installed from the self-collision-pair matrix
\* whose two links link_order swapped
C38_ValueOfTheKeysRobotLink ==
    ReturnedTable =>
        \A key \in DOMAIN collision_matrix :
            collision_matrix[key] = MinDist[key[1]]

\* the names of the groups registered at the root link of the tree
GroupsAtTheRoot ==
    {groups[k].name : k \in {i \in 1..Len(groups) :
                                  groups[i].root_link_name = root_link_name}}

\* the call failed and left links, joints, groups and version as they are
FailsAndLeavesTree(r) == r.exc \notin {"ok", "diverges"} /\ LeavesTree(r)

\* C39: deleting at the root link, by delete_branch(root_link_name) or by
\* delete_group of a group whose root link is the root link of the tree,
\* fails and leaves links, joints, groups and version unchanged; the root
\* link is present and has no parent joint in every reachable state
C39_RootLinkCannotBeDeleted ==
    /\ root_link_name \in DOMAIN links
    /\ links[root_link_name].parent_joint_name = None
    /\ FailsAndLeavesTree(delete_branch(W, root_link_name))
    /\ \A name \in GroupsAtTheRoot : FailsAndLeavesTree(delete_group(W, name))

\* a group is registered at the root link, and a delete_group has just
\* failed with the KeyError of the root link's missing parent joint
C39_Witness ==
    /\ GroupsAtTheRoot # {}
    /\ last = [op |-> "delete_group", exc |-> "KeyError"]
    /\ Cardinality(DOMAIN links) > 1

\* the links of the sub-tree below the root link of the group named name
SubTreeOf(w, name) ==
    traverse(w, w.groups[GroupIndex(w, name)].root_link_name).links

\* the names of the groups whose root link is in no other group's sub-tree
Outermost(w) ==
    {n \in GroupNames(w) :
        \A other \in GroupNames(w) \ {n} :
            w.groups[GroupIndex(w, n)].root_link_name \notin SubTreeOf(w, other)}

\* C40: whatever groups are registered and however deep they are nested,
\* also when a group lies inside two or more other groups,
\* minimal_group_names returns, without raising, exactly the names of the
\* groups whose root link is not inside the sub-tree of any other group
C40_MinimalGroupNamesAreOutermost ==
    SingleTree(W) =>
        LET r == minimal_group_names(W)
        IN r.exc = "ok" /\ r.val = Outermost(W)

====
